---------------------------- MODULE Spec2Model ----------------------------
(***************************************************************************)
(* Model of the positioner control core of modbus_control_final.py:        *)
(* PositionerController (one per axis), SharedPortController (the serial   *)
(* line shared by antenna roll and antenna height) and the retry wrapper   *)
(* _execute_modbus_command.                                                *)
(*                                                                         *)
(* Units.  Physical values (degrees, millimetres) are fixed-point numbers  *)
(* in hundredths of a unit: 90 degrees is 9000, TOLERANCE (0.1) is 10, the *)
(* 0.01 threshold of is_moving is 1.  Time is in tenths of a second:       *)
(* time.sleep(0.1) is 1, the 120 s budget is 1200.  Registers hold raw     *)
(* counts (integers).                                                      *)
(***************************************************************************)
EXTENDS Integers, Sequences, FiniteSets, TLC

VARIABLES
    \* ---- determine_shortest_path applied to drawn inputs (SpecPath)
    pathAxis, pathCur, pathTgt, pathOut,
    \* ---- threads calling _execute_modbus_command (SpecBus)
    thCtrl,        \* thread -> the controller (axis) it calls
    instrumentOK,  \* the shared port's instrument is not None
    lockOwner,     \* SharedPortController.lock: owning thread, or NoThread
    lockCount,     \* its recursion level (RLock)
    pc,            \* thread -> place in _execute_modbus_command
    op,            \* thread -> the operation (func) of the current command
    attempt,       \* thread -> the loop variable of the retry loop
    step,          \* thread -> bus transactions func has completed
    inner,         \* thread -> attempt of the nested read_raw_location
    calls,         \* thread -> invocations of func in the current command
    raised,        \* thread -> invocations of func that raised
    sleeps,        \* thread -> the backoff sleeps of the current command
    ret,           \* thread -> what the command returned
    last_error,    \* thread -> the exception the except clause kept last
    sbit,          \* controller -> the last value written to its START_BIT
    pulseOpen,     \* port -> the thread whose START_BIT 0 of start_movement
                   \* was the latest transaction on the port, or NoThread
    \* ---- one controller, its device and one call of it (SpecCall, SpecMove)
    axis,          \* self.positioner_type
    target,        \* the target argument, hundredths of a unit
    wait,          \* the wait_for_completion argument
    stride,        \* the device's travel per poll, hundredths; 0: any travel
    extStop,       \* another thread's stop_movement has cleared START_BIT
    location,      \* the device's LOCATION register, raw counts
    targetReg,     \* the device's TARGET register: None until written
    startBit,      \* the device's START_BIT
    limitSeen,     \* a limit switch of the axis tripped during the poll loop
    mpc,           \* place in the call
    cAttempt,      \* attempt of set_target_position's _execute_modbus_command
    sub,           \* what set_target_position returned
    result,        \* what the call returned
    reason,        \* the return statement of move_to_position that was taken
    current_pos,   \* move_to_position's local current_pos (first read)
    last_pos,      \* move_to_position's local last_pos
    no_movement_count, \* move_to_position's local no_movement_count
    lastPosition,  \* self._last_position: None until is_moving has run
    now,           \* time.time(), tenths of a second
    start_time,    \* move_to_position's local start_time
    final_pos,     \* move_to_position's local final_pos
    stops,         \* calls of stop_movement made by the call
    issued,        \* registers a write was issued to during the call
    readRegs,      \* registers a read was issued to during the call
    faulted,       \* a bus transaction of the call failed
    linkDown,      \* the serial link is dead: every read fails in all attempts
    quiet,         \* latest polls in a row whose read stayed within 0.01
    resends,       \* start pulses resent by check_position_continuously
    \* ---- MeasurementSystem.move_to_measurement_position (SpecSeq); the
    \* controller variables above are those of the axis being commanded
    seqIdx,        \* the place in the list moves
    spc,           \* place in move_to_measurement_position
    seqResult,     \* what move_to_measurement_position returned
    wrote,         \* axis -> registers written by the moves that returned
    axisOutcome,   \* axis -> how its turn in the loop ended
    checked,       \* axes whose position was read ahead of their move
    travelling,    \* axis -> started by a move that returned, not arrived
    antDead,       \* the link of the shared antenna port is dead
    \* ---- MeasurementSystem.emergency_stop_all and cleanup (SpecTeardown)
    tdCall,        \* the method called: "estop" or "cleanup"
    tdPass,        \* how many times it has been called
    tpc,           \* place in the method
    tdIdx,         \* place in the list the current loop runs over
    tdAttempt,     \* attempt of the current _execute_modbus_command
    tdInstr,       \* antenna_port_controller.instrument is not None
    bits,          \* axis -> the device's START_BIT
    tdWrites,      \* axis -> <<register, value>> writes issued by the calls
    stopTried,     \* axes stop_movement was called on in this call
    stopFailed,    \* axes whose stop_movement did not return True
    resetTried,    \* axes reset_start_bit was run on in this call
    portOpen,      \* port -> its serial connection is open
    closeTried,    \* port -> serial.close() was called in this call
    snapOpen,      \* portOpen as the previous call left it
    \* ---- one call of calibrate_position, read_position, move_up,
    \* move_down, set_speed or of the conversions on the controller above
    method,        \* the method called
    callValue,     \* its argument: hundredths of a unit, or a speed
    callCounts,    \* the local counts: None until convert_to_counts ran
                   \* (in set_target_position, calibrate_position or alone)
    readOut,       \* what read_position returned
    back,          \* what convert_from_counts returned
    \* ---- measure_eirp of data_acquisition.py (SpecEirp)
    epc,               \* place in measure_eirp
    target_height_mm,  \* its argument, in hundredths of a mm
    target_roll_deg,   \* its argument, in hundredths of a degree
    completed_ht,      \* the local: None until the first check
    completed_roll,    \* the local: None until the first check
    passes,            \* passes of the while loop begun
    htPass,            \* pass in which the height axis last reported True
    rollPass,          \* pass in which the roll axis last reported True
    commanded,         \* devices move_to_target returned on
    channel_power      \* what run_spectrum_test returned: None until then

pathVars == <<pathAxis, pathCur, pathTgt, pathOut>>
busVars == <<thCtrl, instrumentOK, lockOwner, lockCount, pc, op, attempt,
             step, inner, calls, raised, sleeps, ret, last_error, sbit,
             pulseOpen>>
ctlVars == <<axis, target, wait, stride, extStop, location, targetReg,
             startBit, limitSeen, mpc, cAttempt, sub, result, reason,
             current_pos, last_pos, no_movement_count, lastPosition, now,
             start_time, final_pos, stops, issued, readRegs, faulted,
             linkDown, quiet,
                   resends>>
seqVars == <<seqIdx, spc, seqResult, wrote, axisOutcome, checked,
             travelling, antDead>>
tdVars == <<tdCall, tdPass, tpc, tdIdx, tdAttempt, tdInstr, bits, tdWrites,
            stopTried, stopFailed, resetTried, portOpen, closeTried,
            snapOpen>>
auxVars == <<method, callValue, callCounts, readOut, back>>
eirpVars == <<epc, target_height_mm, target_roll_deg, completed_ht,
              completed_roll, passes, htPass, rollPass, commanded,
              channel_power>>
vars == <<pathVars, busVars, ctlVars, seqVars, tdVars, auxVars, eirpVars>>

\* Python's Optional: None is the empty tuple, a value v is <<v>>.
None == <<>>
Some(v) == <<v>>
Val(o) == o[1]

\* PositionerType (the enum's values)
ANT_ROLL == "ANT_ROLL"
ANT_HEIGHT == "ANT_HEIGHT"
EUT_ROLL == "EUT_ROLL"
TT_ROLL == "TT_ROLL"
PositionerType == {ANT_ROLL, ANT_HEIGHT, EUT_ROLL, TT_ROLL}

\* The values of a group of variables in the specifications that leave the
\* group alone.
PathIdle ==
    /\ pathAxis = ANT_ROLL
    /\ pathCur = 0
    /\ pathTgt = 0
    /\ pathOut = None

CtlIdle ==
    /\ axis = ANT_ROLL
    /\ target = 0
    /\ wait = TRUE
    /\ stride = 0
    /\ extStop = FALSE
    /\ location = 0
    /\ targetReg = None
    /\ startBit = 0
    /\ limitSeen = FALSE
    /\ mpc = "idle"
    /\ cAttempt = 0
    /\ sub = "none"
    /\ result = "none"
    /\ reason = "none"
    /\ current_pos = None
    /\ last_pos = None
    /\ no_movement_count = 0
    /\ lastPosition = None
    /\ now = 0
    /\ start_time = 0
    /\ final_pos = None
    /\ stops = 0
    /\ issued = {}
    /\ readRegs = {}
    /\ faulted = FALSE
    /\ linkDown = FALSE
    /\ quiet = 0
    /\ resends = 0

SeqIdle ==
    /\ seqIdx = 1
    /\ spc = "idle"
    /\ seqResult = "none"
    /\ wrote = [a \in PositionerType |-> {}]
    /\ axisOutcome = [a \in PositionerType |-> "none"]
    /\ checked = {}
    /\ travelling = [a \in PositionerType |-> FALSE]
    /\ antDead = FALSE

Ports == {"ANT", "EUT", "TT"}

TdIdle ==
    /\ tdCall = "none"
    /\ tdPass = 0
    /\ tpc = "idle"
    /\ tdIdx = 1
    /\ tdAttempt = 0
    /\ tdInstr = TRUE
    /\ bits = [a \in PositionerType |-> 0]
    /\ tdWrites = [a \in PositionerType |-> {}]
    /\ stopTried = {}
    /\ stopFailed = {}
    /\ resetTried = {}
    /\ portOpen = [p \in Ports |-> TRUE]
    /\ closeTried = [p \in Ports |-> FALSE]
    /\ snapOpen = [p \in Ports |-> TRUE]

AuxIdle ==
    /\ method = "none"
    /\ callValue = 0
    /\ callCounts = None
    /\ readOut = None
    /\ back = None

EirpIdle ==
    /\ epc = "idle"
    /\ target_height_mm = 0
    /\ target_roll_deg = 0
    /\ completed_ht = None
    /\ completed_roll = None
    /\ passes = 0
    /\ htPass = 0
    /\ rollPass = 0
    /\ commanded = {}
    /\ channel_power = None

Abs(x) == IF x < 0 THEN -x ELSE x

\* 180 and 360 degrees, in hundredths of a degree
HALF_TURN == 18000
FULL_TURN == 36000

\* POSITION_LIMITS, in hundredths of a unit
POSITION_LIMITS(ax) ==
    CASE ax = TT_ROLL    -> [MIN |-> 0,       MAX |-> 36000]
      [] ax = EUT_ROLL   -> [MIN |-> 0-36000, MAX |-> 36000]
      [] ax = ANT_ROLL   -> [MIN |-> 0,       MAX |-> 18000]
      [] ax = ANT_HEIGHT -> [MIN |-> 152000,  MAX |-> 190000]

InRange(ax, v) ==
    POSITION_LIMITS(ax).MIN <= v /\ v <= POSITION_LIMITS(ax).MAX

\* A variant that forgets the wrap-around of a long way forward.
determine_shortest_path_nowrap(ax, cur, tgt) ==
    IF ax = ANT_HEIGHT THEN tgt
    ELSE LET diff == tgt - cur IN
         IF diff < 0 - HALF_TURN THEN cur + (FULL_TURN + diff)
         ELSE tgt

\* A variant that also adjusts the height ax.
determine_shortest_path_allaxes(ax, cur, tgt) ==
    LET diff == tgt - cur IN
    IF diff > HALF_TURN THEN cur - (FULL_TURN - diff)
    ELSE IF diff < 0 - HALF_TURN THEN cur + (FULL_TURN + diff)
    ELSE tgt

determine_shortest_path(ax, cur, tgt) ==
    IF ax = ANT_HEIGHT THEN tgt
    ELSE LET diff == tgt - cur IN
         IF diff > HALF_TURN THEN cur - (FULL_TURN - diff)
         ELSE IF diff < 0 - HALF_TURN THEN cur + (FULL_TURN + diff)
         ELSE tgt

(***************************************************************************)
(* The serial lines and _execute_modbus_command.                           *)
(***************************************************************************)
\* MeasurementSystem.__init__: antenna roll and antenna height are built on
\* one SharedPortController; EUT roll and turntable each open their own port.
Shared(ax) == ax \in {ANT_ROLL, ANT_HEIGHT}

Port(ax) ==
    CASE ax \in {ANT_ROLL, ANT_HEIGHT} -> "ANT"
      [] ax = EUT_ROLL -> "EUT"
      [] ax = TT_ROLL -> "TT"

MAX_RETRIES == 3
\* 0.2 s, in tenths of a second
BACKOFF == 2

\* A variant with a constant sleep between attempts.
BackoffSleep_flat(att) == BACKOFF

\* time.sleep(0.2 * (attempt + 1))
BackoffSleep(att) == BACKOFF * (att + 1)

\* A variant that retries once less.
MoreAttempts_short(att) == att + 2 < MAX_RETRIES

\* for attempt in range(max_retries): another pass follows pass att
MoreAttempts_four(att) == att + 1 < MAX_RETRIES + 1

MoreAttempts(att) == att + 1 < MAX_RETRIES

Threads == {1, 2}
NoThread == 0

\* The exceptions a bus transaction raises: the device's answer to a
\* register it does not have, and the link's not answering in time.
BusErrors == {"illegal data address", "timeout"}

\* A variant that enters the body whoever holds the lock.
LockAvailable_unguarded(t) == TRUE

\* threading.RLock: free, or already held by the calling thread
LockAvailable(t) == lockOwner \in {NoThread, t}

\* The operations (the func handed to _execute_modbus_command) the threads
\* run, with the bus transactions each makes and what each does with an
\* exception of a transaction: "False" and "None" catch it and return that
\* value, "raise" lets it reach _execute_modbus_command.
BusOps ==
    {"stop_movement", "start_movement", "read_raw_location", "check_limits",
     "set_target_position"}

OpSteps(o) ==
    CASE o = "stop_movement" -> 1         \* write_bit(START_BIT, 0)
      [] o = "start_movement" -> 2        \* write_bit 0, sleep, write_bit 1
      [] o = "read_raw_location" -> 1     \* read_long(LOCATION)
      [] o = "check_limits" -> 2          \* two read_bit
      [] o = "set_target_position" -> 2   \* read_position, write_long(TARGET)

OnError(o) ==
    CASE o \in {"stop_movement", "start_movement"} -> "False"
      [] o = "read_raw_location" -> "None"
      [] o \in {"check_limits", "set_target_position"} -> "raise"

\* The value func returns when every transaction succeeded.
OpValue(o) ==
    IF o \in {"read_raw_location"} THEN "counts" ELSE "True"

\* A variant of start_movement that writes 1 first and 0 second.
WriteValue_reversed(o, k) ==
    IF o = "start_movement" THEN 2 - k ELSE 0

\* The value the k-th transaction of stop_movement or start_movement writes
\* to START_BIT.
WriteValue(o, k) ==
    IF o = "start_movement" THEN k - 1 ELSE 0

\* A transaction of thread t on its port has taken place: the registers of
\* the devices and the record of the port after it.
Transacted(t, ok) ==
    /\ sbit' = IF ok /\ op[t] \in {"stop_movement", "start_movement"}
               THEN [sbit EXCEPT ![thCtrl[t]] = WriteValue(op[t], step[t] + 1)]
               ELSE sbit
    /\ pulseOpen' = [pulseOpen EXCEPT ![Port(thCtrl[t])] =
                        IF ok /\ op[t] = "start_movement" /\ step[t] = 0
                        THEN t ELSE NoThread]

\* Inside the `with` block of _execute_modbus_command.
InFlight(t) == pc[t] \in {"body", "inner_try", "inner_body"}

Acquire(t) ==
    IF Shared(thCtrl[t])
    THEN /\ LockAvailable(t)
         /\ lockOwner' = t
         /\ lockCount' = lockCount + 1
    ELSE UNCHANGED <<lockOwner, lockCount>>

Release(t) ==
    IF Shared(thCtrl[t])
    THEN /\ lockCount' = lockCount - 1
         /\ lockOwner' = IF lockCount - 1 = 0 THEN NoThread ELSE lockOwner
    ELSE UNCHANGED <<lockOwner, lockCount>>

InstrumentPresent(t) == Shared(thCtrl[t]) => instrumentOK

\* The pairs of controllers two threads call: the two on the shared port,
\* one controller from both threads, and controllers on different ports.
ThreadControllers ==
    {<<ANT_ROLL, ANT_HEIGHT>>, <<ANT_HEIGHT, ANT_HEIGHT>>,
     <<EUT_ROLL, EUT_ROLL>>, <<TT_ROLL, ANT_HEIGHT>>}

BusIdle ==
    /\ thCtrl = <<ANT_ROLL, ANT_HEIGHT>>
    /\ instrumentOK = TRUE
    /\ lockOwner = NoThread
    /\ lockCount = 0
    /\ pc = [t \in Threads |-> "idle"]
    /\ op = [t \in Threads |-> "none"]
    /\ attempt = [t \in Threads |-> 0]
    /\ step = [t \in Threads |-> 0]
    /\ inner = [t \in Threads |-> 0]
    /\ calls = [t \in Threads |-> 0]
    /\ raised = [t \in Threads |-> 0]
    /\ sleeps = [t \in Threads |-> <<>>]
    /\ ret = [t \in Threads |-> "none"]
    /\ last_error = [t \in Threads |-> "none"]
    /\ sbit = [a \in PositionerType |-> 0]
    /\ pulseOpen = [p \in Ports |-> NoThread]

BusInit ==
    /\ PathIdle
    /\ CtlIdle
    /\ SeqIdle
    /\ TdIdle
    /\ EirpIdle
    /\ AuxIdle
    /\ thCtrl \in ThreadControllers
    /\ instrumentOK \in BOOLEAN
    /\ lockOwner = NoThread
    /\ lockCount = 0
    /\ pc = [t \in Threads |-> "idle"]
    /\ op = [t \in Threads |-> "none"]
    /\ attempt = [t \in Threads |-> 0]
    /\ step = [t \in Threads |-> 0]
    /\ inner = [t \in Threads |-> 0]
    /\ calls = [t \in Threads |-> 0]
    /\ raised = [t \in Threads |-> 0]
    /\ sleeps = [t \in Threads |-> <<>>]
    /\ ret = [t \in Threads |-> "none"]
    /\ last_error = [t \in Threads |-> "none"]
    /\ sbit = [a \in PositionerType |-> 0]
    /\ pulseOpen = [p \in Ports |-> NoThread]

\* A thread calls an operation of its controller: _execute_modbus_command
\* starts with attempt 0.
BusCall(t) ==
    /\ pc[t] = "idle"
    /\ \E o \in BusOps :
        op' = [op EXCEPT ![t] = o]
    /\ pc' = [pc EXCEPT ![t] = "try"]
    /\ attempt' = [attempt EXCEPT ![t] = 0]
    /\ step' = [step EXCEPT ![t] = 0]
    /\ inner' = [inner EXCEPT ![t] = 0]
    /\ calls' = [calls EXCEPT ![t] = 0]
    /\ raised' = [raised EXCEPT ![t] = 0]
    /\ sleeps' = [sleeps EXCEPT ![t] = <<>>]
    /\ ret' = [ret EXCEPT ![t] = "none"]
    /\ last_error' = [last_error EXCEPT ![t] = "none"]
    /\ UNCHANGED <<thCtrl, instrumentOK, lockOwner, lockCount,
                   sbit, pulseOpen>>
    /\ UNCHANGED <<pathVars, ctlVars, seqVars, tdVars, auxVars, eirpVars>>

\* with lock: the instrument is there, the buffers are flushed, func starts.
BusEnter(t) ==
    /\ pc[t] = "try"
    /\ InstrumentPresent(t)
    /\ Acquire(t)
    /\ pc' = [pc EXCEPT ![t] = "body"]
    /\ step' = [step EXCEPT ![t] = 0]
    /\ inner' = [inner EXCEPT ![t] = 0]
    /\ calls' = [calls EXCEPT ![t] = calls[t] + 1]
    /\ UNCHANGED <<thCtrl, instrumentOK, last_error,
                   op, attempt, raised, sleeps, ret,
                   sbit, pulseOpen>>
    /\ UNCHANGED <<pathVars, ctlVars, seqVars, tdVars, auxVars, eirpVars>>

\* with lock: instrument is None, "Instrument not initialized" is raised and
\* the lock is released on the way out; func is not invoked.
BusEnterNoInstrument(t) ==
    /\ pc[t] = "try"
    /\ ~InstrumentPresent(t)
    /\ LockAvailable(t)
    /\ pc' = [pc EXCEPT ![t] = "backoff"]
    /\ last_error' = [last_error EXCEPT ![t] = "instrument not initialized"]
    /\ UNCHANGED <<thCtrl, instrumentOK, lockOwner, lockCount, op, attempt,
                   step, inner, calls, raised, sleeps, ret,
                   sbit, pulseOpen>>
    /\ UNCHANGED <<pathVars, ctlVars, seqVars, tdVars, auxVars, eirpVars>>

\* The thread's next transaction is the nested read_position of
\* set_target_position.
AtNestedRead(t) == op[t] = "set_target_position" /\ step[t] = 0

\* func's next bus transaction succeeds; after the last one func returns its
\* value, the `with` block is left and the command returns.
BusStepOk(t) ==
    /\ pc[t] = "body"
    /\ ~AtNestedRead(t)
    /\ IF step[t] + 1 = OpSteps(op[t])
       THEN /\ Release(t)
            /\ pc' = [pc EXCEPT ![t] = "done"]
            /\ ret' = [ret EXCEPT ![t] = OpValue(op[t])]
            /\ step' = [step EXCEPT ![t] = step[t] + 1]
       ELSE /\ step' = [step EXCEPT ![t] = step[t] + 1]
            /\ UNCHANGED <<lockOwner, lockCount, pc, ret>>
    /\ Transacted(t, TRUE)
    /\ UNCHANGED <<thCtrl, instrumentOK, last_error,
                   op, attempt, inner, calls, raised,
                   sleeps>>
    /\ UNCHANGED <<pathVars, ctlVars, seqVars, tdVars, auxVars, eirpVars>>

\* func's next bus transaction raises.  func catches it and returns False
\* (the command returns False), or catches it and returns None (the loop
\* goes on at once), or lets it out (the except clause sleeps).
BusStepFail(t) ==
    /\ pc[t] = "body"
    /\ ~AtNestedRead(t)
    /\ Release(t)
    /\ CASE OnError(op[t]) = "False" ->
              /\ pc' = [pc EXCEPT ![t] = "done"]
              /\ ret' = [ret EXCEPT ![t] = "False"]
              /\ UNCHANGED <<attempt, raised, last_error>>
         [] OnError(op[t]) = "None" ->
              /\ pc' = [pc EXCEPT ![t] =
                          IF MoreAttempts(attempt[t]) THEN "try" ELSE "done"]
              /\ ret' = [ret EXCEPT ![t] =
                          IF MoreAttempts(attempt[t]) THEN "none" ELSE "None"]
              /\ attempt' = [attempt EXCEPT ![t] = attempt[t] + 1]
              /\ UNCHANGED <<raised, last_error>>
         [] OnError(op[t]) = "raise" ->
              /\ pc' = [pc EXCEPT ![t] = "backoff"]
              /\ raised' = [raised EXCEPT ![t] = raised[t] + 1]
              /\ \E e \in BusErrors :
                   last_error' = [last_error EXCEPT ![t] = e]
              /\ UNCHANGED <<attempt, ret>>
    /\ Transacted(t, FALSE)
    /\ UNCHANGED <<thCtrl, instrumentOK, op, step, inner, calls, sleeps>>
    /\ UNCHANGED <<pathVars, ctlVars, seqVars, tdVars, auxVars, eirpVars>>

\* except Exception: time.sleep(0.2 * (attempt + 1)); continue.  After the
\* last pass the command returns None.
BusBackoff(t) ==
    /\ pc[t] = "backoff"
    /\ sleeps' = [sleeps EXCEPT ![t] = Append(sleeps[t], BackoffSleep(attempt[t]))]
    /\ attempt' = [attempt EXCEPT ![t] = attempt[t] + 1]
    /\ pc' = [pc EXCEPT ![t] =
                IF MoreAttempts(attempt[t]) THEN "try" ELSE "done"]
    /\ ret' = [ret EXCEPT ![t] =
                IF MoreAttempts(attempt[t]) THEN "none" ELSE "None"]
    /\ UNCHANGED <<thCtrl, instrumentOK, last_error,
                   lockOwner, lockCount, op, step,
                   inner, calls, raised,
                   sbit, pulseOpen>>
    /\ UNCHANGED <<pathVars, ctlVars, seqVars, tdVars, auxVars, eirpVars>>

\* set_target_position's func calls read_position: a nested
\* _execute_modbus_command of the same thread.
InnerStart(t) ==
    /\ pc[t] = "body"
    /\ AtNestedRead(t)
    /\ pc' = [pc EXCEPT ![t] = "inner_try"]
    /\ inner' = [inner EXCEPT ![t] = 0]
    /\ UNCHANGED <<thCtrl, instrumentOK, last_error,
                   lockOwner, lockCount, op, attempt,
                   step, calls, raised, sleeps, ret,
                   sbit, pulseOpen>>
    /\ UNCHANGED <<pathVars, ctlVars, seqVars, tdVars, auxVars, eirpVars>>

InnerEnter(t) ==
    /\ pc[t] = "inner_try"
    /\ Acquire(t)
    /\ pc' = [pc EXCEPT ![t] = "inner_body"]
    /\ UNCHANGED <<thCtrl, instrumentOK, last_error,
                   op, attempt, step, inner, calls,
                   raised, sleeps, ret,
                   sbit, pulseOpen>>
    /\ UNCHANGED <<pathVars, ctlVars, seqVars, tdVars, auxVars, eirpVars>>

\* The nested read succeeds; the range check follows and then the write is
\* the next transaction, unless the target is out of range: then func
\* returns False and so does the command.
InnerReadOk(t) ==
    /\ pc[t] = "inner_body"
    /\ \E inRange \in BOOLEAN :
        IF inRange
        THEN /\ Release(t)
             /\ pc' = [pc EXCEPT ![t] = "body"]
             /\ step' = [step EXCEPT ![t] = 1]
             /\ UNCHANGED ret
        ELSE /\ IF Shared(thCtrl[t])
                THEN /\ lockCount' = lockCount - 2
                     /\ lockOwner' = NoThread
                ELSE UNCHANGED <<lockOwner, lockCount>>
             /\ pc' = [pc EXCEPT ![t] = "done"]
             /\ ret' = [ret EXCEPT ![t] = "False"]
             /\ UNCHANGED step
    /\ Transacted(t, TRUE)
    /\ UNCHANGED <<thCtrl, instrumentOK, last_error,
                   op, attempt, inner, calls, raised,
                   sleeps>>
    /\ UNCHANGED <<pathVars, ctlVars, seqVars, tdVars, auxVars, eirpVars>>

\* The nested read raises: read_raw_location's func returns None, the nested
\* loop goes on without a sleep; after its last pass read_position is None,
\* func returns False and so does the command.
InnerReadFail(t) ==
    /\ pc[t] = "inner_body"
    /\ IF MoreAttempts(inner[t])
       THEN /\ Release(t)
            /\ pc' = [pc EXCEPT ![t] = "inner_try"]
            /\ inner' = [inner EXCEPT ![t] = inner[t] + 1]
            /\ UNCHANGED ret
       ELSE /\ IF Shared(thCtrl[t])
               THEN /\ lockCount' = lockCount - 2
                    /\ lockOwner' = NoThread
               ELSE UNCHANGED <<lockOwner, lockCount>>
            /\ pc' = [pc EXCEPT ![t] = "done"]
            /\ ret' = [ret EXCEPT ![t] = "False"]
            /\ UNCHANGED inner
    /\ Transacted(t, FALSE)
    /\ UNCHANGED <<thCtrl, instrumentOK, last_error,
                   op, attempt, step, calls, raised,
                   sleeps>>
    /\ UNCHANGED <<pathVars, ctlVars, seqVars, tdVars, auxVars, eirpVars>>

\* The caller has the result; the thread is free for its next call.
BusReturn(t) ==
    /\ pc[t] = "done"
    /\ pc' = [pc EXCEPT ![t] = "idle"]
    /\ UNCHANGED <<thCtrl, instrumentOK, last_error,
                   lockOwner, lockCount, op, attempt,
                   step, inner, calls, raised, sleeps, ret,
                   sbit, pulseOpen>>
    /\ UNCHANGED <<pathVars, ctlVars, seqVars, tdVars, auxVars, eirpVars>>

BusNext ==
    \E t \in Threads :
        \/ BusCall(t)
        \/ BusEnter(t)
        \/ BusEnterNoInstrument(t)
        \/ BusStepOk(t)
        \/ BusStepFail(t)
        \/ BusBackoff(t)
        \/ InnerStart(t)
        \/ InnerEnter(t)
        \/ InnerReadOk(t)
        \/ InnerReadFail(t)
        \/ BusReturn(t)

SpecBus == BusInit /\ [][BusNext]_vars

\* C1: of two threads calling controllers on the shared port, at most one is
\* inside the body of _execute_modbus_command at any instant, and the one
\* inside holds the port's lock.
C1_OneInFlightOnSharedPort ==
    \A t1, t2 \in Threads :
        (/\ InFlight(t1)
         /\ Shared(thCtrl[t1])
         /\ Shared(thCtrl[t2])
         /\ t1 # t2)
        => (~InFlight(t2) /\ lockOwner = t1)

\* The antenna-roll thread is inside an operation while the antenna-height
\* thread waits for the lock with its own command.
C1_Witness ==
    /\ thCtrl = <<ANT_ROLL, ANT_HEIGHT>>
    /\ pc[1] = "body" /\ step[1] = 1 /\ op[1] = "start_movement"
    /\ pc[2] = "try" /\ op[2] = "stop_movement"

\* C7: a command whose operation raised on every attempt invoked it exactly
\* max_retries (3) times, slept 0.2 s, 0.4 s, 0.6 s and returned None.
C7_RetryExhaustion ==
    \A t \in Threads :
        (pc[t] = "done" /\ calls[t] > 0 /\ raised[t] = calls[t])
        => (/\ calls[t] = 3
            /\ sleeps[t] = <<2, 4, 6>>
            /\ ret[t] = "None")

\* A check_limits command has raised three times and returned.
C7_Witness ==
    \E t \in Threads :
        /\ pc[t] = "done"
        /\ op[t] = "check_limits"
        /\ raised[t] = 3
        /\ calls[t] = 3

\* C21: the second START_BIT write of start_movement on the shared port
\* comes straight after its first write, with no transaction of another
\* thread on the port in between, and it is the write of 1 on which a
\* successful start_movement returns.
C21_StartPulseUnbroken ==
    [][\A t \in Threads :
         ( /\ op[t] = "start_movement"
           /\ pc[t] = "body"
           /\ step[t] = 1
           /\ step'[t] = 2 ) =>
             /\ Shared(thCtrl[t]) =>
                  (pulseOpen[Port(thCtrl[t])] = t /\ sbit[thCtrl[t]] = 0)
             /\ sbit'[thCtrl[t]] = 1
             /\ ret'[t] = "True"]_vars

\* start_movement of the antenna roll has returned True with START_BIT at 1
\* while the antenna-height thread was kept waiting with its own command.
C21_Witness ==
    /\ thCtrl = <<ANT_ROLL, ANT_HEIGHT>>
    /\ op[1] = "start_movement" /\ pc[1] = "done" /\ ret[1] = "True"
    /\ sbit[ANT_ROLL] = 1
    /\ op[2] = "stop_movement" /\ pc[2] = "try" /\ calls[2] = 0

\* C28: of two threads calling controllers on one port, shared or owned by
\* a single controller, at most one is inside the body of
\* _execute_modbus_command at any instant.
C28_OneInFlightOnEveryPort ==
    \A t1, t2 \in Threads :
        (/\ t1 # t2
         /\ Port(thCtrl[t1]) = Port(thCtrl[t2])
         /\ InFlight(t1))
        => ~InFlight(t2)

(***************************************************************************)
(* SpecPath: determine_shortest_path on drawn inputs.                      *)
(***************************************************************************)
\* Angles and heights a caller may pass, in hundredths: the range ends, the
\* 180-degree boundary on both sides, and the values of the spec's examples.
PathSamples ==
    {0-36000, 0-18001, 0-1000, 0, 1000, 17999, 18000, 18001, 19000, 35000,
     36000, 152000, 190000}

PathInit ==
    /\ BusIdle
    /\ CtlIdle
    /\ SeqIdle
    /\ TdIdle
    /\ EirpIdle
    /\ AuxIdle
    /\ pathAxis \in PositionerType
    /\ pathCur \in PathSamples
    /\ pathTgt \in PathSamples
    /\ pathOut = None

PathApply ==
    /\ pathOut = None
    /\ pathOut' = Some(determine_shortest_path(pathAxis, pathCur, pathTgt))
    /\ UNCHANGED <<pathAxis, pathCur, pathTgt>>
    /\ UNCHANGED <<busVars, ctlVars, seqVars, tdVars, auxVars, eirpVars>>

PathNext == PathApply

SpecPath == PathInit /\ [][PathNext]_vars

\* C3: on an angle axis determine_shortest_path returns
\* current - (360 - (target - current)) when target - current > 180,
\* current + (360 + (target - current)) when target - current < -180 and the
\* target otherwise (350 -> 10 gives 370, 10 -> 350 gives -10); on the height
\* axis it returns the target for every input.
C3_ShortestPath ==
    pathOut # None =>
        LET d == pathTgt - pathCur
            out == Val(pathOut) IN
        /\ pathAxis = ANT_HEIGHT => out = pathTgt
        /\ (pathAxis # ANT_HEIGHT /\ d > 18000) =>
               out = pathCur - (36000 - d)
        /\ (pathAxis # ANT_HEIGHT /\ d < 0 - 18000) =>
               out = pathCur + (36000 + d)
        /\ (pathAxis # ANT_HEIGHT /\ d <= 18000 /\ d >= 0 - 18000) =>
               out = pathTgt
        /\ (pathAxis # ANT_HEIGHT /\ pathCur = 35000 /\ pathTgt = 1000) =>
               out = 37000
        /\ (pathAxis # ANT_HEIGHT /\ pathCur = 1000 /\ pathTgt = 35000) =>
               out = 0 - 1000

\* The 10 -> 350 example has been computed on an angle axis.
C3_Witness ==
    /\ pathAxis = EUT_ROLL
    /\ pathCur = 1000
    /\ pathTgt = 35000
    /\ pathOut = Some(0 - 1000)

(***************************************************************************)
(* One controller and its device: conversions, read_position,              *)
(* set_target_position.                                                    *)
(***************************************************************************)
\* TOLERANCE = 0.1, in hundredths of a unit
TOLERANCE == 10

\* HEIGHT_CONSTANTS['COUNTS_PER_MM']
COUNTS_PER_MM == 8960

\* STEPS_PER_DEGREE
STEPS_PER_DEGREE(ax) ==
    CASE ax = ANT_ROLL -> 1000
      [] ax = EUT_ROLL -> 80
      [] ax = TT_ROLL -> 373

\* The factor convert_to_counts and read_position use for the axis.
CountsPerUnit(ax) ==
    IF ax = ANT_HEIGHT THEN COUNTS_PER_MM ELSE STEPS_PER_DEGREE(ax)

\* Python's int() of a quotient: truncation toward zero.
TruncDiv(x, y) == IF x >= 0 THEN x \div y ELSE 0 - ((0 - x) \div y)

\* int(value * factor), value in hundredths of a unit
convert_to_counts(ax, value) == TruncDiv(value * CountsPerUnit(ax), 100)

\* raw_counts / factor, in hundredths of a unit.  The device locations of
\* this model are whole multiples of a hundredth, where the quotient is
\* exact.
counts_to_position(ax, counts) == (counts * 100) \div CountsPerUnit(ax)

\* A variant of read_position that answers 0 when the read failed.
read_position_default(fault, loc) ==
    IF fault THEN Some(0) ELSE Some(counts_to_position(axis, loc))

\* read_position of a device standing at loc: the LOCATION register
\* converted, or None when read_raw_location failed in all its attempts.
read_position(fault, loc) ==
    IF fault THEN None ELSE Some(counts_to_position(axis, loc))

\* A variant that asks for the very position.
Near_exact(x, y) == x = y

\* abs(a - b) < TOLERANCE
Near(x, y) == Abs(x - y) < TOLERANCE

\* write_long(..., signed=False) packs an unsigned 32-bit long: a negative
\* value raises ValueError before anything is sent.  The upper end, 2^32 - 1,
\* lies above every count an accepted target converts to (at most
\* 1900 mm * 8960).
Encodable(counts) == 0 <= counts

\* A variant of the range check that only checks the lower limit.
TargetAccepted_minonly(cur) ==
    POSITION_LIMITS(axis).MIN <= determine_shortest_path(axis, cur, target)

\* set_target_position.execute: the range check of the adjusted target
TargetAccepted(cur) ==
    InRange(axis, determine_shortest_path(axis, cur, target))

\* One pass of _execute_modbus_command around set_target_position.execute:
\* read_position, determine_shortest_path, the range check, convert_to_counts
\* and write_long(TARGET).  A failed read or a rejected target returns False;
\* a write that raises is retried after the backoff and, after the last
\* attempt, the command returns None.
SetTargetAttempt ==
    /\ mpc = "set_target"
    /\ \E dies, wfault \in BOOLEAN :
        LET r == read_position(linkDown \/ dies, location)
            optimized_target == determine_shortest_path(axis, Val(r), target)
            counts == convert_to_counts(axis, optimized_target)
        IN
        /\ linkDown' = (linkDown \/ dies)
        /\ readRegs' = readRegs \cup {"LOCATION"}
        /\ callCounts' = IF r # None /\ TargetAccepted(Val(r))
                         THEN Some(counts) ELSE callCounts
        /\ IF r = None
           THEN /\ wfault = FALSE
                /\ sub' = "False"
                /\ mpc' = "set_target_done"
                /\ faulted' = TRUE
                /\ UNCHANGED <<targetReg, issued, cAttempt>>
           ELSE IF ~TargetAccepted(Val(r))
           THEN /\ wfault = FALSE
                /\ sub' = "False"
                /\ mpc' = "set_target_done"
                /\ faulted' = faulted
                /\ UNCHANGED <<targetReg, issued, cAttempt>>
           ELSE IF Encodable(counts) /\ ~wfault
           THEN /\ targetReg' = Some(counts)
                /\ issued' = issued \cup {"TARGET"}
                /\ sub' = "True"
                /\ mpc' = "set_target_done"
                /\ faulted' = faulted
                /\ UNCHANGED cAttempt
           ELSE /\ (~Encodable(counts)) => ~wfault
                /\ issued' = IF Encodable(counts)
                             THEN issued \cup {"TARGET"} ELSE issued
                /\ faulted' = (faulted \/ wfault)
                /\ cAttempt' = cAttempt + 1
                /\ mpc' = IF MoreAttempts(cAttempt)
                          THEN "set_target" ELSE "set_target_done"
                /\ sub' = IF MoreAttempts(cAttempt) THEN "none" ELSE "None"
                /\ UNCHANGED targetReg
    /\ UNCHANGED <<axis, target, wait, stride, extStop,
                   location, startBit, limitSeen, result,
                   reason, current_pos, last_pos, no_movement_count,
                   lastPosition, now, start_time, final_pos, stops, quiet,
                   resends>>
    /\ UNCHANGED <<method, callValue, readOut, back>>
    /\ UNCHANGED <<pathVars, busVars, seqVars, tdVars, eirpVars>>

(***************************************************************************)
(* SpecCall: set_target_position called on a controller of any axis.       *)
(***************************************************************************)
\* Targets a caller may pass, hundredths of a unit: the ends of the range,
\* one hundredth outside each end, values inside, and 2000 mm.
CallTargets(ax) ==
    LET lim == POSITION_LIMITS(ax) IN
    {lim.MIN - 1, lim.MIN, lim.MIN + 1000, lim.MAX - 1000, lim.MAX,
     lim.MAX + 1, 200000}

\* Positions the device may stand at when the call is made, hundredths.
CallPositions(ax) ==
    IF ax = ANT_HEIGHT
    THEN {0, 152000, 160000, 190000, 200000}
    ELSE {0, 1000, 10000, 20000, 35000, 37000}

CallInit ==
    /\ PathIdle
    /\ BusIdle
    /\ SeqIdle
    /\ TdIdle
    /\ EirpIdle
    /\ AuxIdle
    /\ axis \in PositionerType
    /\ target \in CallTargets(axis)
    /\ wait = TRUE
    /\ stride = 0
    /\ extStop = FALSE
    /\ location \in {convert_to_counts(axis, q) : q \in CallPositions(axis)}
    /\ targetReg = None
    /\ startBit = 0
    /\ limitSeen = FALSE
    /\ mpc = "set_target"
    /\ cAttempt = 0
    /\ sub = "none"
    /\ result = "none"
    /\ reason = "none"
    /\ current_pos = None
    /\ last_pos = None
    /\ no_movement_count = 0
    /\ lastPosition = None
    /\ now = 0
    /\ start_time = 0
    /\ final_pos = None
    /\ stops = 0
    /\ issued = {}
    /\ readRegs = {}
    /\ faulted = FALSE
    /\ linkDown = FALSE
    /\ quiet = 0
    /\ resends = 0

CallNext == SetTargetAttempt

SpecCall == CallInit /\ [][CallNext]_vars

\* C2: set_target_position on the height axis with a target outside
\* [1520, 1900] mm returns failure and issues no register write, whatever
\* the current position is.
C2_HeightOutOfRangeNoWrite ==
    (axis = ANT_HEIGHT /\ (target < 152000 \/ target > 190000)) =>
        /\ issued = {}
        /\ targetReg = None
        /\ mpc = "set_target_done" => sub = "False"

\* set_target_position(2000 mm) has returned on the height axis standing at
\* 1600 mm, with a working read.
C2_Witness ==
    /\ axis = ANT_HEIGHT
    /\ target = 200000
    /\ counts_to_position(axis, location) = 160000
    /\ mpc = "set_target_done"
    /\ ~faulted
    /\ sub = "False"

\* C19: a call of set_target_position that fails the range check has issued
\* no register read and no register write on the channel.
C19_RejectedBeforeTraffic ==
    ( /\ mpc = "set_target_done"
      /\ ~linkDown
      /\ ~TargetAccepted(counts_to_position(axis, location)) ) =>
        (readRegs = {} /\ issued = {})

\* C29: on an angle axis with no failed transaction, set_target_position
\* with a target inside the position range, called with the axis standing
\* inside the range, writes TARGET and returns True.
C29_InRangeTargetAccepted ==
    ( /\ mpc = "set_target_done"
      /\ axis # ANT_HEIGHT
      /\ ~faulted
      /\ InRange(axis, target)
      /\ InRange(axis, counts_to_position(axis, location)) ) =>
        (sub = "True" /\ targetReg # None /\ "TARGET" \in issued)

(***************************************************************************)
(* move_to_position.                                                       *)
(***************************************************************************)
\* The 0.01 of is_moving, in hundredths of a unit
MOVING_EPS == 1
\* no_movement_count > 50
STALL_LIMIT == 50
\* max_wait_time = 120 s, in tenths of a second
MAX_WAIT_TIME == 1200
\* time.sleep(0.1)
POLL_SLEEP == 1

\* What one pass of the poll loop takes beyond its sleep (its bus
\* transactions), tenths of a second.
BusLatency == 21
\* The clock stops counting here, past the 120 s budget.
ClockHorizon == 1250
\* The resent start pulses are counted up to here.
ResendCap == 2

Min(x, y) == IF x < y THEN x ELSE y

\* is_moving: the position changed by more than 0.01 since the last call
\* (the first call compares the position with itself) and the target is not
\* reached.
is_moving(cur, tgt) ==
    LET last == IF lastPosition = None THEN cur ELSE Val(lastPosition) IN
    Abs(cur - last) > MOVING_EPS /\ ~Near(cur, tgt)

\* time.time() - start_time > max_wait_time
TimedOut(t) == t - start_time > MAX_WAIT_TIME

\* abs(current_pos - last_pos) < TOLERANCE
NoMovement(cur) == Abs(cur - Val(last_pos)) < TOLERANCE

\* no_movement_count > 50
StallReached(n) == n > STALL_LIMIT

\* stop_movement: write_bit(START_BIT, 0); a failed write leaves the bit.
stop_movement_inert(fault, bit) == bit

stop_movement(fault, bit) == IF fault THEN bit ELSE 0

\* check_limits: True when neither limit bit of the axis is set.
check_limits(first, second) == ~(first \/ second)

\* The calls of SpecMove: an axis, a target and the positions (hundredths)
\* its device passes through.  Antenna roll towards 90 degrees, with
\* a position 0.06 degree from the start on the way and an overshoot of
\* 0.2 degree; EUT roll from 100 to -100 degrees, where the adjusted target
\* is 260 degrees; height to 2000 mm; turntable from 340 or 350 to 10 degrees.
MoveTargets(ax) ==
    CASE ax = ANT_ROLL -> 9000
      [] ax = EUT_ROLL -> 0 - 10000
      [] ax = ANT_HEIGHT -> 200000
      [] ax = TT_ROLL -> 1000

DevicePositions(ax) ==
    CASE ax = ANT_ROLL -> {0, 6, 9000, 9020}
      [] ax = EUT_ROLL -> {10000, 26000}
      [] ax = ANT_HEIGHT -> {160000, 170000}
      [] ax = TT_ROLL -> {34000, 35000}

DeviceLocations == {convert_to_counts(axis, q) : q \in DevicePositions(axis)}

Max(x, y) == IF x > y THEN x ELSE y

\* Where the device may stand at the next look.  With START_BIT cleared it
\* stands.  A device of any travel (stride 0) goes one way during a move and
\* may stand still; a device of a given stride goes that far towards the
\* TARGET register at every look, and stays once it is there.
Forward(loc) ==
    IF startBit = 0 THEN {loc}
    ELSE IF stride = 0 THEN {l \in DeviceLocations : l >= loc}
    ELSE LET goal == Val(targetReg)
             hop == convert_to_counts(axis, stride)
         IN  IF loc <= goal THEN {Min(loc + hop, goal)}
             ELSE {Max(loc - hop, goal)}

\* The device registers and the locals of a controller that has not been
\* commanded yet.
CtlFresh ==
    /\ extStop = FALSE
    /\ targetReg = None
    /\ startBit = 0
    /\ limitSeen = FALSE
    /\ cAttempt = 0
    /\ sub = "none"
    /\ result = "none"
    /\ reason = "none"
    /\ current_pos = None
    /\ last_pos = None
    /\ no_movement_count = 0
    /\ lastPosition = None
    /\ now = 0
    /\ start_time = 0
    /\ final_pos = None
    /\ stops = 0
    /\ issued = {}
    /\ readRegs = {}
    /\ faulted = FALSE
    /\ linkDown = FALSE
    /\ quiet = 0
    /\ resends = 0

\* The entry of move_to_position on such a controller.
MoveEntry ==
    /\ PathIdle
    /\ BusIdle
    /\ SeqIdle
    /\ TdIdle
    /\ EirpIdle
    /\ AuxIdle
    /\ CtlFresh
    /\ mpc = "move"

MoveInit ==
    /\ MoveEntry
    /\ axis \in PositionerType
    /\ target = MoveTargets(axis)
    /\ wait \in BOOLEAN
    /\ stride = 0
    /\ location \in {convert_to_counts(axis, q) : q \in DevicePositions(axis)}

\* current_pos = self.read_position(); None returns False; a position
\* within TOLERANCE of the target returns True.
MoveBegin ==
    /\ mpc = "move"
    /\ \E dies \in BOOLEAN :
        LET r == read_position(linkDown \/ dies, location) IN
        /\ linkDown' = (linkDown \/ dies)
        /\ readRegs' = readRegs \cup {"LOCATION"}
        /\ faulted' = (faulted \/ r = None)
        /\ IF r = None
           THEN /\ result' = "False"
                /\ reason' = "read_failed"
                /\ mpc' = "done"
                /\ UNCHANGED current_pos
           ELSE IF Near(Val(r), target)
           THEN /\ result' = "True"
                /\ reason' = "already"
                /\ mpc' = "done"
                /\ UNCHANGED current_pos
           ELSE /\ current_pos' = r
                /\ mpc' = "set_target"
                /\ UNCHANGED <<result, reason>>
    /\ cAttempt' = 0
    /\ UNCHANGED <<axis, target, wait, stride, extStop,
                   location, targetReg, startBit,
                   limitSeen, sub, last_pos, no_movement_count, lastPosition,
                   now, start_time, final_pos, stops, issued, quiet,
                   resends>>
    /\ UNCHANGED <<pathVars, busVars, seqVars, tdVars, auxVars, eirpVars>>

\* if not self.set_target_position(target): return False
MoveAfterSetTarget ==
    /\ mpc = "set_target_done"
    /\ IF sub = "True"
       THEN /\ mpc' = "start"
            /\ UNCHANGED <<result, reason>>
       ELSE /\ result' = "False"
            /\ reason' = "set_target_failed"
            /\ mpc' = "done"
    /\ UNCHANGED <<axis, target, wait, stride, extStop,
                   location, targetReg, startBit,
                   limitSeen, cAttempt, sub, current_pos, last_pos,
                   no_movement_count, lastPosition, now, start_time,
                   final_pos, stops, issued, readRegs, faulted, linkDown,
                   quiet,
                   resends>>
    /\ UNCHANGED <<pathVars, busVars, seqVars, tdVars, auxVars, eirpVars>>

\* start_movement (START_BIT 0, sleep, START_BIT 1; a failed write returns
\* False), then either the return of a call that does not wait or the
\* locals of the poll loop.
MoveStart ==
    /\ mpc = "start"
    /\ \E outcome \in {"ok", "first_fails", "second_fails"} :
        /\ issued' = issued \cup {"START_BIT"}
        /\ faulted' = (faulted \/ outcome # "ok")
        /\ startBit' = CASE outcome = "ok" -> 1
                         [] outcome = "first_fails" -> startBit
                         [] outcome = "second_fails" -> 0
        /\ IF outcome # "ok"
           THEN /\ result' = "False"
                /\ reason' = "start_failed"
                /\ mpc' = "done"
                /\ UNCHANGED <<start_time, last_pos, no_movement_count>>
           ELSE IF wait
           THEN /\ start_time' = now
                /\ last_pos' = current_pos
                /\ no_movement_count' = 0
                /\ mpc' = "loop"
                /\ UNCHANGED <<result, reason>>
           ELSE /\ result' = "True"
                /\ reason' = "not_waited"
                /\ mpc' = "done"
                /\ UNCHANGED <<start_time, last_pos, no_movement_count>>
    /\ UNCHANGED <<axis, target, wait, stride, extStop,
                   location, targetReg, limitSeen,
                   cAttempt, sub, current_pos, lastPosition, now, final_pos,
                   stops, readRegs, linkDown, quiet,
                   resends>>
    /\ UNCHANGED <<pathVars, busVars, seqVars, tdVars, auxVars, eirpVars>>

\* A variant that returns position_reached or complete_bit.
is_movement_complete_either(r, tgt, complete_bit) ==
    (r # None /\ Near(Val(r), tgt)) \/ complete_bit

\* is_movement_complete: False when the read failed, else position_reached;
\* the COMPLETE_BIT of the device is not looked at.
is_movement_complete(r, tgt, complete_bit) ==
    r # None /\ Near(Val(r), tgt)

\* while not self.is_movement_complete(target): a read within TOLERANCE of
\* the target ends the loop; a failed read counts as not complete.  The
\* device's COMPLETE_BIT has either value.
MoveCheckComplete ==
    /\ mpc = "loop"
    /\ \E dies, complete_bit \in BOOLEAN :
        LET r == read_position(linkDown \/ dies, location) IN
        /\ linkDown' = (linkDown \/ dies)
        /\ faulted' = (faulted \/ r = None)
        /\ mpc' = IF is_movement_complete(r, target, complete_bit)
                  THEN "final" ELSE "poll"
    /\ readRegs' = readRegs \cup {"LOCATION"}
    /\ UNCHANGED <<axis, target, wait, stride, extStop,
                   location, targetReg, startBit,
                   limitSeen, cAttempt, sub, result, reason, current_pos,
                   last_pos, no_movement_count, lastPosition, now,
                   start_time, final_pos, stops, issued, quiet,
                   resends>>
    /\ UNCHANGED <<pathVars, busVars, seqVars, tdVars, auxVars, eirpVars>>

\* One pass of the loop body: time.sleep(0.1), during which the device may
\* move and a limit switch may trip; check_position_continuously (read,
\* is_moving, the resent start pulse, the timeout check, which a failed read
\* skips); on timeout stop_movement and return False; else a second read and
\* the no_movement_count bookkeeping, with stop_movement and return False
\* above 50.  The device (its place, its limit switches) is followed while
\* the link shows it.
MovePoll ==
    /\ mpc = "poll"
    /\ \E ahead \in Forward(location), d2, d3, sf, lim \in BOOLEAN :
        LET t1 == Min(now + POLL_SLEEP + BusLatency, ClockHorizon)
            f2 == linkDown \/ d2
            f3 == f2 \/ d3
            loc == IF f2 THEN location ELSE ahead
            pos == counts_to_position(axis, loc)
            r2 == read_position(f2, loc)
            pulse == r2 # None /\ ~is_moving(pos, target)
            bit == IF pulse THEN 1 ELSE startBit
            timeout == r2 # None /\ TimedOut(t1)
            r3 == read_position(f3, loc)
            still == r3 # None /\ NoMovement(pos)
            stalled == ~timeout /\ still /\ StallReached(no_movement_count + 1)
        IN
        /\ linkDown => (~d2 /\ ~d3 /\ ~lim)
        /\ d2 => ~d3
        /\ timeout => ~d3
        /\ (~timeout /\ ~stalled) => ~sf
        /\ location' = loc
        /\ now' = t1
        /\ readRegs' = readRegs \cup {"LOCATION"}
        /\ limitSeen' = (limitSeen \/ lim)
        /\ lastPosition' = IF r2 = None THEN lastPosition ELSE r2
        /\ resends' = IF pulse THEN Min(resends + 1, ResendCap) ELSE resends
        /\ linkDown' = IF timeout THEN linkDown ELSE f3
        /\ faulted' = (faulted \/ f2 \/ (~timeout /\ f3) \/ sf)
        /\ IF timeout \/ stalled
           THEN /\ startBit' = stop_movement(sf, bit)
                /\ stops' = stops + 1
                /\ issued' = issued \cup {"START_BIT"}
                /\ result' = "False"
                /\ reason' = IF timeout THEN "timeout" ELSE "stalled"
                /\ mpc' = "done"
           ELSE /\ startBit' = bit
                /\ issued' = IF pulse THEN issued \cup {"START_BIT"} ELSE issued
                /\ mpc' = "loop"
                /\ UNCHANGED <<stops, result, reason>>
        /\ IF timeout \/ r3 = None
           THEN UNCHANGED <<no_movement_count, last_pos, quiet>>
           ELSE /\ no_movement_count' =
                    IF still THEN no_movement_count + 1 ELSE 0
                /\ last_pos' = r3
                /\ quiet' = IF Abs(pos - Val(last_pos)) <= MOVING_EPS
                            THEN quiet + 1 ELSE 0
    /\ UNCHANGED <<axis, target, wait, stride, extStop,
                   targetReg, cAttempt, sub, current_pos,
                   start_time, final_pos>>
    /\ UNCHANGED <<pathVars, busVars, seqVars, tdVars, auxVars, eirpVars>>

\* final_pos = self.read_position(): within TOLERANCE decides the result,
\* and a failed read falls through to return True.
MoveFinal ==
    /\ mpc = "final"
    /\ \E loc \in Forward(location), dies \in BOOLEAN :
        LET r == read_position(linkDown \/ dies, loc) IN
        /\ location' = loc
        /\ final_pos' = r
        /\ readRegs' = readRegs \cup {"LOCATION"}
        /\ linkDown' = (linkDown \/ dies)
        /\ faulted' = (faulted \/ r = None)
        /\ result' = IF r = None THEN "True"
                     ELSE IF Near(Val(r), target) THEN "True" ELSE "False"
        /\ reason' = "final"
        /\ mpc' = "done"
    /\ UNCHANGED <<axis, target, wait, stride, extStop,
                   targetReg, startBit, limitSeen,
                   cAttempt, sub, current_pos, last_pos, no_movement_count,
                   lastPosition, now, start_time, stops, issued, quiet,
                   resends>>
    /\ UNCHANGED <<pathVars, busVars, seqVars, tdVars, auxVars, eirpVars>>

MoveNext ==
    \/ MoveBegin
    \/ SetTargetAttempt
    \/ MoveAfterSetTarget
    \/ MoveStart
    \/ MoveCheckComplete
    \/ MovePoll
    \/ MoveFinal

SpecMove == MoveInit /\ [][MoveNext]_vars

\* SpecMoveFair: a waiting call on the antenna roll axis standing at 0.06
\* degree, which keeps taking its steps until it returns (the thread that
\* runs move_to_position is never suspended for ever).
MoveFairInit ==
    /\ MoveInit
    /\ axis = ANT_ROLL
    /\ wait
    /\ counts_to_position(axis, location) = 6

SpecMoveFair == MoveFairInit /\ [][MoveNext]_vars /\ WF_vars(MoveNext)

\* C4: once the reads have stayed within 0.01 unit for 50 polls in a row
\* without the target being reached, the move is aborted as stalled at that
\* poll (failure, exactly one stop command); a move is aborted as stalled
\* only after 50 such polls in a row.
C4_StallAbort ==
    /\ mpc = "poll" => quiet < 50
    /\ reason = "stalled" => (result = "False" /\ stops = 1 /\ quiet >= 50)

\* C5: a waiting move that has neither completed nor stalled is aborted as
\* timed out (stop_movement called, failure returned) at the first poll with
\* more than 120 s elapsed since the start, and never at a poll with 120 s or
\* less elapsed.
C5_TimeoutAbort ==
    /\ mpc = "loop" => now - start_time <= 1200
    /\ reason = "timeout" =>
        (now - start_time > 1200 /\ result = "False" /\ stops = 1)

\* C6: every waiting move_to_position whose poll loop has started eventually
\* returns, whatever the channel and the axis do.
C6_MoveReturns == (mpc = "loop") ~> (mpc = "done")

\* C8: when a limit bit of the axis has tripped during a waiting move, the
\* move is aborted at that poll: it has returned failure and a stop command
\* has been sent.
C8_LimitAbort ==
    limitSeen => (mpc = "done" /\ result = "False" /\ stops >= 1)

\* C9: a waiting move that ran its poll loop to completion returns success
\* only if the final read succeeded and is within TOLERANCE of the target.
C9_SuccessNeedsFinalRead ==
    (reason = "final" /\ result = "True") =>
        (final_pos # None /\ Abs(Val(final_pos) - target) < 10)

\* C10: on an angle axis with no failed transaction, when the TARGET register
\* holds an adjusted target other than the requested one and the axis stands
\* at the written position, the waiting move that has returned reports
\* success.
C10_AdjustedTargetSucceeds ==
    ( /\ mpc = "done"
      /\ wait
      /\ axis # ANT_HEIGHT
      /\ ~faulted
      /\ targetReg # None
      /\ Val(targetReg) # convert_to_counts(axis, target)
      /\ location = Val(targetReg) ) => result = "True"

\* C22: during one waiting move_to_position the start pulse is resent by
\* the stuck-start recovery at most once.
C22_ResendAtMostOnce == resends <= 1

AdvanceStrides == {5, 10, 500}

AdvanceInit ==
    /\ MoveEntry
    /\ axis = ANT_ROLL
    /\ target = 9000
    /\ wait \in BOOLEAN
    /\ stride \in AdvanceStrides
    /\ location = 0

SpecAdvance == AdvanceInit /\ [][MoveNext]_vars

\* C11: with every bus operation succeeding and the axis advancing towards
\* the target at every poll until it arrives, the waiting move returns
\* success through the completion of its loop (the first poll that reads a
\* position within 0.1 of the target), is not aborted as stalled or timed
\* out, and sends no stop command.
C11_AdvancingAxisSucceeds ==
    (mpc = "done" /\ wait /\ ~faulted) =>
        (result = "True" /\ reason = "final" /\ stops = 0)

(***************************************************************************)
(* SpecStop: a waiting move_to_position and a stop_movement of the same    *)
(* axis called from another thread while the poll loop runs.               *)
(***************************************************************************)
\* stop_movement called by another thread (emergency_stop_all included)
\* between two steps of the poll loop.
ExternalStop ==
    /\ mpc \in {"loop", "poll"}
    /\ ~extStop
    /\ \E fault \in BOOLEAN :
        /\ startBit' = stop_movement(fault, startBit)
        /\ extStop' = ~fault
    /\ issued' = issued \cup {"START_BIT"}
    /\ UNCHANGED <<axis, target, wait, stride, location, targetReg,
                   limitSeen, mpc, cAttempt, sub, result, reason,
                   current_pos, last_pos, no_movement_count, lastPosition,
                   now, start_time, final_pos, stops, readRegs, faulted,
                   linkDown, quiet,
                   resends>>
    /\ UNCHANGED <<pathVars, busVars, seqVars, tdVars, auxVars, eirpVars>>

StopNext ==
    \/ MoveBegin
    \/ SetTargetAttempt
    \/ MoveAfterSetTarget
    \/ MoveStart
    \/ MoveCheckComplete
    \/ MovePoll
    \/ MoveFinal
    \/ ExternalStop

SpecStop == MoveFairInit /\ [][StopNext]_vars

\* C12: once another thread's stop_movement has cleared START_BIT during the
\* poll loop, no step of the move in progress sets START_BIT again.
C12_StopIsNotUndone == [][extStop => startBit' = 0]_vars

(***************************************************************************)
(* SpecSeq: MeasurementSystem.move_to_measurement_position.                *)
(***************************************************************************)
\* moves: the controllers in the order of the list
SeqOrder == <<ANT_ROLL, TT_ROLL, EUT_ROLL, ANT_HEIGHT>>

\* The arguments of the call (90 degrees, 350 degrees, 260 degrees,
\* 1700 mm) and where each device stands when its turn comes.
SeqTargets(ax) ==
    CASE ax = ANT_ROLL -> 9000
      [] ax = TT_ROLL -> 35000
      [] ax = EUT_ROLL -> 26000
      [] ax = ANT_HEIGHT -> 170000

SeqStarts(ax) ==
    CASE ax = ANT_ROLL -> 6
      [] ax = TT_ROLL -> 34000
      [] ax = EUT_ROLL -> 10000
      [] ax = ANT_HEIGHT -> 160000

\* A variant of the loop that goes on to the next axis whatever the move
\* returned.
SeqContinues_always(res) == TRUE

\* if not controller.move_to_position(...): return False
SeqContinues(res) == res = "True"

SeqInit ==
    /\ PathIdle
    /\ BusIdle
    /\ TdIdle
    /\ EirpIdle
    /\ AuxIdle
    /\ CtlFresh
    /\ mpc = "idle"
    /\ axis = SeqOrder[1]
    /\ target = SeqTargets(axis)
    /\ wait \in BOOLEAN
    /\ stride = 0
    /\ location = convert_to_counts(axis, SeqStarts(axis))
    /\ seqIdx = 1
    /\ spc = "read"
    /\ seqResult = "none"
    /\ wrote = [a \in PositionerType |-> {}]
    /\ axisOutcome = [a \in PositionerType |-> "none"]
    /\ checked = {}
    /\ travelling = [a \in PositionerType |-> FALSE]
    /\ antDead = FALSE

\* The controller variables become those of the next controller of the
\* list, which has not been commanded yet.
SeqLoad(ax, dead) ==
    /\ axis' = ax
    /\ target' = SeqTargets(ax)
    /\ location' = convert_to_counts(ax, SeqStarts(ax))
    /\ extStop' = FALSE
    /\ targetReg' = None
    /\ startBit' = 0
    /\ limitSeen' = FALSE
    /\ mpc' = "idle"
    /\ cAttempt' = 0
    /\ sub' = "none"
    /\ result' = "none"
    /\ reason' = "none"
    /\ current_pos' = None
    /\ last_pos' = None
    /\ no_movement_count' = 0
    /\ lastPosition' = None
    /\ now' = 0
    /\ start_time' = 0
    /\ final_pos' = None
    /\ stops' = 0
    /\ issued' = {}
    /\ readRegs' = {}
    /\ faulted' = FALSE
    /\ linkDown' = dead
    /\ quiet' = 0
    /\ resends' = 0
    /\ UNCHANGED <<wait, stride>>

\* current_pos = controller.read_position(): None returns False, else
\* move_to_position is entered.
SeqRead ==
    /\ spc = "read"
    /\ \E dies \in BOOLEAN :
        LET r == read_position(linkDown \/ dies, location) IN
        /\ linkDown' = (linkDown \/ dies)
        /\ faulted' = (faulted \/ r = None)
        /\ IF r = None
           THEN /\ axisOutcome' = [axisOutcome EXCEPT ![axis] = "read_failed"]
                /\ antDead' = (antDead \/ Port(axis) = "ANT")
                /\ seqResult' = "False"
                /\ spc' = "done"
                /\ UNCHANGED mpc
           ELSE /\ mpc' = "move"
                /\ spc' = "move"
                /\ UNCHANGED <<axisOutcome, antDead, seqResult>>
    /\ readRegs' = readRegs \cup {"LOCATION"}
    /\ checked' = checked \cup {axis}
    /\ UNCHANGED <<axis, target, wait, stride, extStop, location, targetReg,
                   startBit, limitSeen, cAttempt, sub, result, reason,
                   current_pos, last_pos, no_movement_count, lastPosition,
                   now, start_time, final_pos, stops, issued, quiet,
                   resends>>
    /\ UNCHANGED <<seqIdx, wrote, travelling>>
    /\ UNCHANGED <<pathVars, busVars, tdVars, auxVars, eirpVars>>

\* move_to_position has returned: False returns False; else time.sleep(0.5)
\* and the next controller of the list, or True after the last one.
SeqAfterMove ==
    /\ spc = "move"
    /\ mpc = "done"
    /\ wrote' = [wrote EXCEPT ![axis] = issued]
    /\ axisOutcome' = [axisOutcome EXCEPT ![axis] = result]
    /\ travelling' = [travelling EXCEPT ![axis] =
                         /\ startBit = 1
                         /\ targetReg # None
                         /\ ~Near(counts_to_position(axis, location),
                                  counts_to_position(axis, Val(targetReg)))]
    /\ antDead' = (antDead \/ (Port(axis) = "ANT" /\ linkDown))
    /\ IF ~SeqContinues(result)
       THEN /\ seqResult' = "False"
            /\ spc' = "done"
            /\ UNCHANGED <<seqIdx, ctlVars>>
       ELSE IF seqIdx = Len(SeqOrder)
       THEN /\ seqResult' = "True"
            /\ spc' = "done"
            /\ UNCHANGED <<seqIdx, ctlVars>>
       ELSE /\ seqIdx' = seqIdx + 1
            /\ spc' = "read"
            /\ SeqLoad(SeqOrder[seqIdx + 1],
                       Port(SeqOrder[seqIdx + 1]) = "ANT" /\ antDead')
            /\ UNCHANGED seqResult
    /\ UNCHANGED checked
    /\ UNCHANGED <<pathVars, busVars, tdVars, auxVars, eirpVars>>

\* An axis that was left travelling reaches the place it was sent to.
AxisArrives(a) ==
    /\ travelling[a]
    /\ travelling' = [travelling EXCEPT ![a] = FALSE]
    /\ UNCHANGED <<seqIdx, spc, seqResult, wrote, axisOutcome, checked,
                   antDead>>
    /\ UNCHANGED <<pathVars, busVars, ctlVars, tdVars, auxVars, eirpVars>>

SeqNext ==
    \/ SeqRead
    \/ MoveBegin
    \/ SetTargetAttempt
    \/ MoveAfterSetTarget
    \/ MoveStart
    \/ MoveCheckComplete
    \/ MovePoll
    \/ MoveFinal
    \/ SeqAfterMove
    \/ \E a \in PositionerType : AxisArrives(a)

SpecSeq == SeqInit /\ [][SeqNext]_vars

C14_SharedAxesNotTogether ==
    (axis = ANT_HEIGHT /\ startBit = 1) => ~travelling[ANT_ROLL]

(***************************************************************************)
(* MeasurementSystem.emergency_stop_all and MeasurementSystem.cleanup.     *)
(*                                                                         *)
(* Both walk the four controllers in the order antenna roll, antenna       *)
(* height, EUT roll, turntable roll.  One step of the model is one attempt *)
(* of _execute_modbus_command for the operation at hand, or one close.     *)
(* An attempt ends in one of three ways:                                   *)
(*   "raise"        the wrapper's own part raised (no instrument, or the   *)
(*                  buffer flush failed, as it does on a closed port);     *)
(*                  the wrapper catches it and tries again,                *)
(*   "write_failed" write_bit raised inside the closure,                   *)
(*   "ok"           write_bit went through.                                *)
(***************************************************************************)
TdAxes == <<ANT_ROLL, ANT_HEIGHT, EUT_ROLL, TT_ROLL>>

OwnAxes == <<EUT_ROLL, TT_ROLL>>

TdCalls == 2

TdOutcomes == {"raise", "write_failed", "ok"}

\* the wrapper gets as far as the closure only with an instrument whose
\* port is open
Usable(a) == portOpen[Port(a)] /\ (Shared(a) => tdInstr)

TdGoesOn_untilfailure(ok) == ok

\* neither emergency_stop_all nor the loops of cleanup look at what the
\* operation on the previous axis returned
TdGoesOn(ok) == TRUE

TdInit ==
    /\ PathIdle /\ BusIdle /\ CtlIdle /\ SeqIdle /\ AuxIdle
    /\ EirpIdle
    /\ tdCall \in {"estop", "cleanup"}
    /\ tdPass = 1
    /\ tpc = "stop"
    /\ tdIdx = 1
    /\ tdAttempt = 0
    /\ tdInstr \in BOOLEAN
    /\ bits \in [PositionerType -> {0, 1}]
    /\ tdWrites = [a \in PositionerType |-> {}]
    /\ stopTried = {}
    /\ stopFailed = {}
    /\ resetTried = {}
    /\ portOpen = [p \in Ports |-> IF p = "ANT" THEN tdInstr ELSE TRUE]
    /\ closeTried = [p \in Ports |-> FALSE]
    /\ snapOpen = portOpen

\* where the call goes once the stop of the axis at tdIdx is over
AfterStop(ok) ==
    IF ~TdGoesOn(ok) THEN tpc' = "returned" /\ tdIdx' = 1
    ELSE IF tdIdx < Len(TdAxes) THEN tdIdx' = tdIdx + 1 /\ tpc' = tpc
    ELSE /\ tdIdx' = 1
         /\ tpc' = IF tdCall = "estop" THEN "returned" ELSE "reset"

\* one attempt of stop_movement on the axis at tdIdx
TdStopAttempt ==
    /\ tpc = "stop"
    /\ \E outcome \in TdOutcomes :
         LET a == TdAxes[tdIdx]
             ok == outcome = "ok"
             retry == outcome = "raise" /\ MoreAttempts(tdAttempt)
         IN  /\ ~Usable(a) => outcome = "raise"
             /\ stopTried' = stopTried \cup {a}
             /\ IF outcome = "raise"
                THEN UNCHANGED <<bits, tdWrites>>
                ELSE /\ bits' = [bits EXCEPT
                                   ![a] = stop_movement(~ok, bits[a])]
                     /\ tdWrites' = [tdWrites EXCEPT
                                       ![a] = @ \cup {<<"START_BIT", 0>>}]
             /\ stopFailed' = IF retry \/ ok THEN stopFailed
                              ELSE stopFailed \cup {a}
             /\ IF retry
                THEN tdAttempt' = tdAttempt + 1 /\ UNCHANGED <<tpc, tdIdx>>
                ELSE tdAttempt' = 0 /\ AfterStop(ok)
    /\ UNCHANGED <<tdCall, tdPass, tdInstr, resetTried, portOpen,
                   closeTried, snapOpen>>
    /\ UNCHANGED <<pathVars, busVars, ctlVars, seqVars, auxVars, eirpVars>>

\* one attempt of the reset_start_bit closure on the axis at tdIdx; the
\* closure does not catch, so a failing write is retried by the wrapper
TdResetAttempt ==
    /\ tpc = "reset"
    /\ \E outcome \in TdOutcomes :
         LET a == TdAxes[tdIdx]
             ok == outcome = "ok"
             retry == ~ok /\ MoreAttempts(tdAttempt)
         IN  /\ ~Usable(a) => outcome = "raise"
             /\ resetTried' = resetTried \cup {a}
             /\ IF outcome = "raise"
                THEN UNCHANGED <<bits, tdWrites>>
                ELSE /\ bits' = [bits EXCEPT ![a] = IF ok THEN 0 ELSE @]
                     /\ tdWrites' = [tdWrites EXCEPT
                                       ![a] = @ \cup {<<"START_BIT", 0>>}]
             /\ IF retry
                THEN tdAttempt' = tdAttempt + 1 /\ UNCHANGED <<tpc, tdIdx>>
                ELSE /\ tdAttempt' = 0
                     /\ IF tdIdx < Len(TdAxes)
                        THEN tdIdx' = tdIdx + 1 /\ tpc' = tpc
                        ELSE tdIdx' = 1 /\ tpc' = "close_shared"
    /\ UNCHANGED <<tdCall, tdPass, tdInstr, stopTried, stopFailed,
                   portOpen, closeTried, snapOpen>>
    /\ UNCHANGED <<pathVars, busVars, ctlVars, seqVars, auxVars, eirpVars>>

\* flush, flush, close in one try block: serial.close() is reached only
\* when neither flush raised
CloseChannel(p, flushRaises) ==
    IF flushRaises
    THEN UNCHANGED <<portOpen, closeTried>>
    ELSE /\ portOpen' = [portOpen EXCEPT ![p] = FALSE]
         /\ closeTried' = [closeTried EXCEPT ![p] = TRUE]

\* SharedPortController.close_connection on the antenna port
TdCloseShared ==
    /\ tpc = "close_shared"
    /\ \E flushFault \in BOOLEAN :
         /\ (~tdInstr \/ ~portOpen["ANT"]) => ~flushFault
         /\ IF tdInstr
            THEN CloseChannel("ANT", flushFault \/ ~portOpen["ANT"])
            ELSE UNCHANGED <<portOpen, closeTried>>
    /\ tpc' = "close_own"
    /\ tdIdx' = 1
    /\ UNCHANGED <<tdCall, tdPass, tdAttempt, tdInstr, bits, tdWrites,
                   stopTried, stopFailed, resetTried, snapOpen>>
    /\ UNCHANGED <<pathVars, busVars, ctlVars, seqVars, auxVars, eirpVars>>

\* the close of the port a controller owns by itself
TdCloseOwn ==
    /\ tpc = "close_own"
    /\ \E flushFault \in BOOLEAN :
         LET p == Port(OwnAxes[tdIdx])
         IN  /\ ~portOpen[p] => ~flushFault
             /\ CloseChannel(p, flushFault \/ ~portOpen[p])
    /\ IF tdIdx < Len(OwnAxes)
       THEN tdIdx' = tdIdx + 1 /\ tpc' = tpc
       ELSE tdIdx' = 1 /\ tpc' = "returned"
    /\ UNCHANGED <<tdCall, tdPass, tdAttempt, tdInstr, bits, tdWrites,
                   stopTried, stopFailed, resetTried, snapOpen>>
    /\ UNCHANGED <<pathVars, busVars, ctlVars, seqVars, auxVars, eirpVars>>

\* the caller runs the same operation once more
TdCallAgain ==
    /\ tpc = "returned"
    /\ tdPass < TdCalls
    /\ tdPass' = tdPass + 1
    /\ tpc' = "stop"
    /\ tdIdx' = 1
    /\ tdAttempt' = 0
    /\ stopTried' = {}
    /\ stopFailed' = {}
    /\ resetTried' = {}
    /\ closeTried' = [p \in Ports |-> FALSE]
    /\ snapOpen' = portOpen
    /\ UNCHANGED <<tdCall, tdInstr, bits, tdWrites, portOpen>>
    /\ UNCHANGED <<pathVars, busVars, ctlVars, seqVars, auxVars, eirpVars>>

TdNext ==
    \/ TdStopAttempt
    \/ TdResetAttempt
    \/ TdCloseShared
    \/ TdCloseOwn
    \/ TdCallAgain

SpecTeardown == TdInit /\ [][TdNext]_vars

\* the calls are sequential code whose only waits are finite sleeps
SpecTeardownFair == TdInit /\ [][TdNext]_vars /\ WF_vars(TdNext)

\* C15: when emergency_stop_all has returned, stop_movement has been called
\* on each of the four controllers, whatever the earlier ones returned.
C15_EveryAxisStopped ==
    (tdCall = "estop" /\ tpc = "returned") => stopTried = PositionerType

C15_Witness ==
    /\ tdCall = "estop" /\ tpc = "returned"
    /\ stopFailed = {ANT_ROLL, EUT_ROLL}
    /\ stopTried = PositionerType
    /\ bits[TT_ROLL] = 0 /\ tdWrites[TT_ROLL] # {}

\* C20: stop_movement writes nothing but 0 to START_BIT, and the START_BIT
\* of an axis whose stop_movement returned True is 0.
C20_StopWritesOnlyStartBit ==
    tdCall = "estop" =>
        \A a \in PositionerType :
            /\ tdWrites[a] \subseteq {<<"START_BIT", 0>>}
            /\ (a \in stopTried \ stopFailed /\ (tpc = "stop" =>
                   a # TdAxes[tdIdx])) => bits[a] = 0

C20_Witness ==
    /\ tdCall = "estop" /\ tdPass = 1
    /\ EUT_ROLL \in stopTried \ stopFailed
    /\ tpc = "stop" /\ TdAxes[tdIdx] = TT_ROLL
    /\ tdWrites[EUT_ROLL] = {<<"START_BIT", 0>>}
    /\ bits[EUT_ROLL] = 0 /\ bits[TT_ROLL] = 1


\* C16: cleanup stops every axis, then resets START_BIT on every axis, then
\* closes; no channel is closed before the stops and resets were attempted,
\* and by the time cleanup returns serial.close() was called on every
\* channel that was open when it began, whatever failed on the way.
C16_CleanupClosesEveryChannel ==
    tdCall = "cleanup" =>
        /\ (tpc \in {"reset", "close_shared", "close_own", "returned"}
              => stopTried = PositionerType)
        /\ (tpc \in {"close_shared", "close_own", "returned"}
              => resetTried = PositionerType)
        /\ ((\E p \in Ports : closeTried[p])
              => (stopTried = PositionerType /\ resetTried = PositionerType))
        /\ (tpc = "returned"
              => \A p \in Ports : snapOpen[p] => closeTried[p])

\* C17: a second cleanup changes nothing: it returns with every channel
\* closed, as the first one left them, and has written no START_BIT of 1.
C17_CleanupIdempotent ==
    (tdCall = "cleanup" /\ tdPass = 2 /\ tpc = "returned") =>
        /\ \A p \in Ports : ~portOpen[p]
        /\ portOpen = snapOpen
        /\ \A a \in PositionerType : <<"START_BIT", 1>> \notin tdWrites[a]

\* C18: no operation of emergency_stop_all or cleanup makes more than
\* max_retries attempts, and every call returns, whatever fails.
C18_TeardownTerminates ==
    /\ [](tdAttempt < MAX_RETRIES)
    /\ (tpc # "returned") ~> (tpc = "returned")

C18_Witness ==
    /\ tpc = "returned"
    /\ ~tdInstr
    /\ stopFailed = PositionerType
    /\ resetTried = PositionerType
    /\ \E p \in Ports : portOpen[p]


(***************************************************************************)
(* SpecAux: one call of calibrate_position, read_position, move_up,        *)
(* move_down or set_speed on a controller of any axis whose device stands  *)
(* (START_BIT is 0).                                                       *)
(***************************************************************************)
AuxMethods ==
    {"calibrate_position", "read_position", "move_up", "move_down",
     "set_speed"}

\* SPEED_SETTINGS[...]['MAX']; None for the EUT roll
SPEED_MAX(ax) ==
    CASE ax = TT_ROLL -> Some(4000)
      [] ax = EUT_ROLL -> None
      [] ax = ANT_ROLL -> Some(5000)
      [] ax = ANT_HEIGHT -> Some(37500)

\* The arguments of the calls: calibration values at and around the ends of
\* the position range, speeds below and above every maximum.
AuxValues(m, ax) ==
    LET lim == POSITION_LIMITS(ax) IN
    CASE m = "calibrate_position" ->
             {lim.MIN - 1, lim.MIN, lim.MIN + 1000, lim.MAX - 1000, lim.MAX,
              lim.MAX + 1}
      [] m = "set_speed" -> {3000, 40000}
      [] OTHER -> {0}

\* Where the device stands when the call is made, hundredths of a unit: at
\* raw count 0, inside the position range and outside of it.
AuxPositions(ax) ==
    CASE ax = ANT_ROLL -> {0, 9000, 20000}
      [] ax = EUT_ROLL -> {0, 10000, 40000}
      [] ax = ANT_HEIGHT -> {0, 160000, 200000}
      [] ax = TT_ROLL -> {0, 34000, 37000}

AuxInit ==
    /\ PathIdle
    /\ BusIdle
    /\ SeqIdle
    /\ TdIdle
    /\ EirpIdle
    /\ CtlFresh
    /\ mpc = "call"
    /\ axis \in PositionerType
    /\ target = 0
    /\ wait = TRUE
    /\ stride = 0
    /\ location \in {convert_to_counts(axis, q) : q \in AuxPositions(axis)}
    /\ method \in AuxMethods
    /\ callValue \in AuxValues(method, axis)
    /\ callCounts = None
    /\ readOut = None
    /\ back = None

\* What no call of SpecAux touches.
AuxFrame ==
    /\ UNCHANGED <<axis, target, wait, stride, extStop, targetReg, startBit,
                   limitSeen, sub, reason, current_pos, last_pos,
                   no_movement_count, lastPosition, now, start_time,
                   final_pos, stops, quiet, resends>>
    /\ UNCHANGED <<method, callValue, back>>
    /\ UNCHANGED <<pathVars, busVars, seqVars, tdVars, eirpVars>>

\* A variant of the range check that only checks the lower limit.
CalibrationAccepted_minonly(v) == POSITION_LIMITS(axis).MIN <= v

\* calibrate_position: the range check of the value
CalibrationAccepted(v) == InRange(axis, v)

\* A variant that reports success whatever was read back.
CalibrationVerified_any(read, v) == TRUE

\* calibrate_position.execute: success = abs(read_value - value) < TOLERANCE
CalibrationVerified(read, v) == Near(read, v)

\* calibrate_position up to the call of _execute_modbus_command: a value
\* outside the range returns False; else counts = convert_to_counts(value).
CalibrateCheck ==
    /\ mpc = "call"
    /\ method = "calibrate_position"
    /\ IF CalibrationAccepted(callValue)
       THEN /\ callCounts' = Some(convert_to_counts(axis, callValue))
            /\ mpc' = "execute"
            /\ UNCHANGED result
       ELSE /\ result' = "False"
            /\ mpc' = "returned"
            /\ UNCHANGED callCounts
    /\ cAttempt' = 0
    /\ UNCHANGED <<location, issued, readRegs, faulted, linkDown, readOut>>
    /\ AuxFrame

\* One pass of _execute_modbus_command around calibrate_position.execute:
\* write_long(LOCATION), which raises on a negative count before anything is
\* sent and is retried when it raises; the re-read by read_position; the
\* comparison.  The device takes the written count or keeps its own.
CalibrateAttempt ==
    /\ mpc = "execute"
    /\ method = "calibrate_position"
    /\ \E wfault, taken, dies \in BOOLEAN :
        LET c == Val(callCounts)
            sent == Encodable(c)
            loc == IF taken THEN c ELSE location
            r == read_position(linkDown \/ dies, loc)
        IN
        IF ~sent \/ wfault
        THEN /\ ~sent => ~wfault
             /\ ~taken /\ ~dies
             /\ issued' = IF sent THEN issued \cup {"LOCATION"} ELSE issued
             /\ faulted' = (faulted \/ wfault)
             /\ cAttempt' = cAttempt + 1
             /\ mpc' = IF MoreAttempts(cAttempt) THEN "execute" ELSE "returned"
             /\ result' = IF MoreAttempts(cAttempt) THEN result ELSE "None"
             /\ UNCHANGED <<location, readRegs, linkDown, readOut>>
        ELSE /\ issued' = issued \cup {"LOCATION"}
             /\ location' = loc
             /\ readRegs' = readRegs \cup {"LOCATION"}
             /\ linkDown' = (linkDown \/ dies)
             /\ faulted' = (faulted \/ r = None)
             /\ readOut' = r
             /\ result' = IF r # None /\ CalibrationVerified(Val(r), callValue)
                          THEN "True" ELSE "False"
             /\ mpc' = "returned"
             /\ UNCHANGED cAttempt
    /\ UNCHANGED callCounts
    /\ AuxFrame


\* One pass of _execute_modbus_command around read_raw_location.execute,
\* and the rest of read_position once the command has returned.  read_long
\* raising makes the closure return None and the loop go on; after the last
\* pass the command returns None and so does read_position.  A count that
\* was read is converted, whatever its value.
ReadAttempt ==
    /\ mpc = "call"
    /\ method = "read_position"
    /\ \E fault \in BOOLEAN :
        /\ readRegs' = readRegs \cup {"LOCATION"}
        /\ faulted' = (faulted \/ fault)
        /\ IF fault
           THEN /\ cAttempt' = cAttempt + 1
                /\ IF MoreAttempts(cAttempt)
                   THEN UNCHANGED <<mpc, readOut>>
                   ELSE /\ mpc' = "returned"
                        /\ readOut' = read_position(TRUE, location)
           ELSE /\ mpc' = "returned"
                /\ readOut' = read_position(FALSE, location)
                /\ UNCHANGED cAttempt
    /\ UNCHANGED <<location, issued, result, linkDown, callCounts>>
    /\ AuxFrame

\* move_up, move_down: only the height axis gets past the first line
JogAllowed(ax) == ax = ANT_HEIGHT

\* move_up and move_down.  On another axis they return False at once.  On
\* the height axis one pass of _execute_modbus_command writes UP_BIT or
\* DOWN_BIT; write_bit returns None, so the loop goes on whether the write
\* raised or not, and after the last pass the command returns None.
JogAttempt ==
    /\ mpc = "call"
    /\ method \in {"move_up", "move_down"}
    /\ IF ~JogAllowed(axis)
       THEN /\ result' = "False"
            /\ mpc' = "returned"
            /\ UNCHANGED <<issued, faulted, cAttempt>>
       ELSE \E wfault \in BOOLEAN :
            /\ issued' = issued \cup
                 {IF method = "move_up" THEN "UP_BIT" ELSE "DOWN_BIT"}
            /\ faulted' = (faulted \/ wfault)
            /\ cAttempt' = cAttempt + 1
            /\ mpc' = IF MoreAttempts(cAttempt) THEN "call" ELSE "returned"
            /\ result' = IF MoreAttempts(cAttempt) THEN result ELSE "None"
    /\ UNCHANGED <<location, readRegs, linkDown, callCounts, readOut>>
    /\ AuxFrame

\* A variant with no axis of fixed speed.
SpeedSettable_all(ax) == TRUE

\* set_speed.execute: the EUT roll has no speed setting
SpeedSettable(ax) == ax # EUT_ROLL

\* One pass of _execute_modbus_command around set_speed.execute: False for
\* the EUT roll and for a speed above the maximum of the axis, else
\* write_register(SPEED).  The comparison with a maximum of None raises, as
\* a failing write does, and the pass is repeated.
SetSpeedAttempt ==
    /\ mpc = "call"
    /\ method = "set_speed"
    /\ \E wfault \in BOOLEAN :
        LET max == SPEED_MAX(axis)
            refused == ~SpeedSettable(axis) \/
                       (max # None /\ callValue > Val(max))
            written == ~refused /\ max # None
        IN
        /\ ~written => ~wfault
        /\ issued' = IF written THEN issued \cup {"SPEED"} ELSE issued
        /\ faulted' = (faulted \/ wfault)
        /\ IF refused
           THEN /\ result' = "False"
                /\ mpc' = "returned"
                /\ UNCHANGED cAttempt
           ELSE IF written /\ ~wfault
           THEN /\ result' = "True"
                /\ mpc' = "returned"
                /\ UNCHANGED cAttempt
           ELSE /\ cAttempt' = cAttempt + 1
                /\ mpc' = IF MoreAttempts(cAttempt) THEN "call" ELSE "returned"
                /\ result' = IF MoreAttempts(cAttempt) THEN result ELSE "None"
    /\ UNCHANGED <<location, readRegs, linkDown, callCounts, readOut>>
    /\ AuxFrame

AuxNext ==
    \/ CalibrateCheck
    \/ CalibrateAttempt
    \/ ReadAttempt
    \/ JogAttempt
    \/ SetSpeedAttempt

SpecAux == AuxInit /\ [][AuxNext]_vars

\* C23: calibrate_position with a value inside the position range writes to
\* no register but LOCATION, leaves TARGET and START_BIT alone, and returns
\* True only when the position read back is within TOLERANCE of the value.
C23_CalibrateWritesLocationOnly ==
    (method = "calibrate_position" /\ InRange(axis, callValue)) =>
        /\ issued \subseteq {"LOCATION"}
        /\ targetReg = None
        /\ startBit = 0
        /\ result = "True" =>
             (readOut # None /\ Abs(Val(readOut) - callValue) < TOLERANCE)

\* The turntable has been calibrated to 350 degrees and reads it back.
C23_Witness ==
    /\ method = "calibrate_position"
    /\ axis = TT_ROLL /\ callValue = 35000
    /\ mpc = "returned" /\ result = "True"
    /\ issued = {"LOCATION"}
    /\ location = convert_to_counts(TT_ROLL, 35000)

\* C24: calibrate_position with a value outside the position range returns
\* False in its first step, with no register read and no register write
\* issued and the LOCATION register as it was.
C24_CalibrateOutOfRange ==
    [][( /\ method = "calibrate_position"
         /\ mpc = "call"
         /\ ~InRange(axis, callValue) ) =>
           ( /\ mpc' = "returned"
             /\ result' = "False"
             /\ issued' = {} /\ readRegs' = {}
             /\ location' = location )]_vars

\* calibrate_position(1900.01 mm) has returned False on the height axis.
C24_Witness ==
    /\ method = "calibrate_position"
    /\ axis = ANT_HEIGHT /\ callValue = 190001
    /\ mpc = "returned" /\ result = "False"
    /\ issued = {} /\ readRegs = {}

\* C25: read_position returns None when the LOCATION read failed in all
\* three attempts, and otherwise the count read divided by the counts per
\* unit of the axis, also for a count of 0 and for a position outside the
\* range.
C25_ReadPositionFaithful ==
    (method = "read_position" /\ mpc = "returned") =>
        IF cAttempt = MAX_RETRIES
        THEN readOut = None
        ELSE readOut = Some((location * 100) \div CountsPerUnit(axis))

\* The height axis at raw count 0 (0 mm, below the range) has been read at
\* the third attempt.
C25_Witness ==
    /\ method = "read_position" /\ mpc = "returned"
    /\ axis = ANT_HEIGHT /\ location = 0
    /\ cAttempt = 2
    /\ readOut = Some(0)

\* C26: move_up and move_down on an axis other than the height, and
\* set_speed on the EUT roll, return False and issue no register write.
C26_UnsupportedCallsRefused ==
    ( /\ mpc = "returned"
      /\ \/ (method \in {"move_up", "move_down"} /\ axis # ANT_HEIGHT)
         \/ (method = "set_speed" /\ axis = EUT_ROLL) ) =>
        (result = "False" /\ issued = {})

\* set_speed has returned on the EUT roll.
C26_Witness ==
    /\ method = "set_speed" /\ axis = EUT_ROLL /\ callValue = 3000
    /\ mpc = "returned" /\ result = "False"


(***************************************************************************)
(* SpecConv: convert_to_counts followed by convert_from_counts on values   *)
(* of every axis.  A physical value returned by convert_from_counts is the *)
(* exact quotient num / den, kept as the pair.                             *)
(***************************************************************************)
\* How far, in hundredths of a unit, the values reach from each end of the
\* position range (and from 0 on the EUT roll).
ConvSpan == 120

ConvValues(ax) ==
    LET lim == POSITION_LIMITS(ax) IN
    {lim.MIN + k : k \in 0..ConvSpan} \cup {lim.MAX - k : k \in 0..ConvSpan}
      \cup (IF lim.MIN < 0 THEN (0 - ConvSpan)..ConvSpan ELSE {})

\* A variant that hands the counts back unconverted.
convert_from_counts_raw(ax, c) == [num |-> c, den |-> 1]

\* convert_from_counts: counts / factor
convert_from_counts(ax, c) == [num |-> c, den |-> CountsPerUnit(ax)]

\* int(value * factor) on floats: the truncated product, and, where the
\* exact product is a whole number other than 0, possibly the count next to
\* it towards 0, since the float product may fall just short of it (as
\* int(0.57 * 100) is 56).
FloatInt(ax, v) ==
    LET exact == convert_to_counts(ax, v)
        whole == (v * CountsPerUnit(ax)) % 100 = 0
    IN  {exact} \cup
        (IF whole /\ exact > 0 THEN {exact - 1}
         ELSE IF whole /\ exact < 0 THEN {exact + 1}
         ELSE {})

ConvInit ==
    /\ PathIdle
    /\ BusIdle
    /\ SeqIdle
    /\ TdIdle
    /\ EirpIdle
    /\ CtlFresh
    /\ mpc = "call"
    /\ axis \in PositionerType
    /\ target = 0
    /\ wait = TRUE
    /\ stride = 0
    /\ location = 0
    /\ method = "convert_to_counts"
    /\ callValue \in ConvValues(axis)
    /\ callCounts = None
    /\ readOut = None
    /\ back = None

ConvertTo ==
    /\ mpc = "call"
    /\ method = "convert_to_counts"
    /\ \E c \in FloatInt(axis, callValue) : callCounts' = Some(c)
    /\ method' = "convert_from_counts"
    /\ UNCHANGED <<callValue, readOut, back>>
    /\ UNCHANGED ctlVars
    /\ UNCHANGED <<pathVars, busVars, seqVars, tdVars, eirpVars>>

ConvertFrom ==
    /\ mpc = "call"
    /\ method = "convert_from_counts"
    /\ back' = Some(convert_from_counts(axis, Val(callCounts)))
    /\ mpc' = "returned"
    /\ UNCHANGED <<axis, target, wait, stride, extStop, location, targetReg,
                   startBit, limitSeen, cAttempt, sub, result, reason,
                   current_pos, last_pos, no_movement_count, lastPosition,
                   now, start_time, final_pos, stops, issued, readRegs,
                   faulted, linkDown, quiet, resends>>
    /\ UNCHANGED <<method, callValue, callCounts, readOut>>
    /\ UNCHANGED <<pathVars, busVars, seqVars, tdVars, eirpVars>>

ConvNext ==
    \/ ConvertTo
    \/ ConvertFrom

SpecConv == ConvInit /\ [][ConvNext]_vars

\* C30: for a value v inside the position range of the axis,
\* convert_from_counts(convert_to_counts(v)) lies within one count (1 / den
\* of a unit) of v: |num / den - v / 100| <= 1 / den, with v in hundredths
\* and the quotients taken exactly.
C30_RoundTripWithinOneCount ==
    (mpc = "returned" /\ method = "convert_from_counts") =>
        /\ Val(back).den = CountsPerUnit(axis)
        /\ Abs(Val(back).num * 100 - callValue * Val(back).den) <= 100

\* 0.07 degree on the turntable comes back as 26 counts of 1/373 degree,
\* less than the value and within one count of it.
C30_Witness ==
    /\ mpc = "returned" /\ method = "convert_from_counts"
    /\ axis = TT_ROLL /\ callValue = 7
    /\ callCounts = Some(26)
    /\ back = Some([num |-> 26, den |-> 373])


\* C31: convert_to_counts(value) is value * factor rounded to the nearest
\* integer: the counts differ from the exact product by at most half a
\* count, for every value of the position range, negative ones included.
\* Stated on the values whose exact product has a fractional part, where
\* rounding and truncation part and the last bit of the float product
\* plays no role.
C31_RoundsToNearest ==
    (callCounts # None /\ (callValue * CountsPerUnit(axis)) % 100 # 0) =>
        2 * Abs(Val(callCounts) * 100 - callValue * CountsPerUnit(axis)) <= 100


(***************************************************************************)
(* SpecEirp: one call of measure_eirp (data_acquisition.py).  What the two *)
(* devices answer to move_to_target and check_completion is drawn: True,   *)
(* False or an exception, which measure_eirp does not catch.               *)
(***************************************************************************)
\* How many passes of the while loop a run goes through at most.
EirpPasses == 4

EirpHeights == {152000, 190000}
EirpRolls == {0, 9000}
EirpPowers == {0 - 4000, 0 - 2500}
Reports == {"True", "False", "raise"}

\* A variant that leaves the loop as soon as one axis reports completion.
BothCompleted_either(ht, roll) == ht = Some(TRUE) \/ roll = Some(TRUE)

\* if completed_ht and completed_roll: break
BothCompleted(ht, roll) == ht = Some(TRUE) /\ roll = Some(TRUE)

EirpInit ==
    /\ PathIdle
    /\ BusIdle
    /\ CtlIdle
    /\ SeqIdle
    /\ TdIdle
    /\ AuxIdle
    /\ epc = "move_ht"
    /\ target_height_mm \in EirpHeights
    /\ target_roll_deg \in EirpRolls
    /\ completed_ht = None
    /\ completed_roll = None
    /\ passes = 0
    /\ htPass = 0
    /\ rollPass = 0
    /\ commanded = {}
    /\ channel_power = None

EirpFrame == UNCHANGED <<pathVars, busVars, ctlVars, seqVars, tdVars, auxVars>>

\* device_ht.move_to_target(target_height_mm, True)
EirpMoveHt ==
    /\ epc = "move_ht"
    /\ \E ok \in BOOLEAN :
         IF ok
           THEN /\ commanded' = commanded \cup {"ht"}
                /\ epc' = "move_roll"
           ELSE /\ epc' = "raised"
                /\ UNCHANGED commanded
    /\ UNCHANGED <<target_height_mm, target_roll_deg, completed_ht,
                   completed_roll, passes, htPass, rollPass, channel_power>>
    /\ EirpFrame

\* device_roll.move_to_target(target_roll_deg, False)
EirpMoveRoll ==
    /\ epc = "move_roll"
    /\ \E ok \in BOOLEAN :
         IF ok
           THEN /\ commanded' = commanded \cup {"roll"}
                /\ epc' = "check_ht"
           ELSE /\ epc' = "raised"
                /\ UNCHANGED commanded
    /\ UNCHANGED <<target_height_mm, target_roll_deg, completed_ht,
                   completed_roll, passes, htPass, rollPass, channel_power>>
    /\ EirpFrame

\* while True: completed_ht = device_ht.check_completion(True)
EirpCheckHt ==
    /\ epc = "check_ht"
    /\ passes < EirpPasses
    /\ passes' = passes + 1
    /\ \E r \in Reports :
         CASE r = "True" -> /\ completed_ht' = Some(TRUE)
                            /\ htPass' = passes + 1
                            /\ epc' = "check_roll"
           [] r = "False" -> /\ completed_ht' = Some(FALSE)
                             /\ epc' = "check_roll"
                             /\ UNCHANGED htPass
           [] r = "raise" -> /\ epc' = "raised"
                             /\ UNCHANGED <<completed_ht, htPass>>
    /\ UNCHANGED <<target_height_mm, target_roll_deg, completed_roll,
                   rollPass, commanded, channel_power>>
    /\ EirpFrame

\* completed_roll = device_roll.check_completion(False)
EirpCheckRoll ==
    /\ epc = "check_roll"
    /\ \E r \in Reports :
         CASE r = "True" -> /\ completed_roll' = Some(TRUE)
                            /\ rollPass' = passes
                            /\ epc' = "decide"
           [] r = "False" -> /\ completed_roll' = Some(FALSE)
                             /\ epc' = "decide"
                             /\ UNCHANGED rollPass
           [] r = "raise" -> /\ epc' = "raised"
                             /\ UNCHANGED <<completed_roll, rollPass>>
    /\ UNCHANGED <<target_height_mm, target_roll_deg, completed_ht, passes,
                   htPass, commanded, channel_power>>
    /\ EirpFrame

\* if completed_ht and completed_roll: break
EirpDecide ==
    /\ epc = "decide"
    /\ epc' = IF BothCompleted(completed_ht, completed_roll)
                THEN "measure" ELSE "sleep"
    /\ UNCHANGED <<target_height_mm, target_roll_deg, completed_ht,
                   completed_roll, passes, htPass, rollPass, commanded,
                   channel_power>>
    /\ EirpFrame

\* time.sleep(0.5), then the next pass
EirpSleep ==
    /\ epc = "sleep"
    /\ epc' = "check_ht"
    /\ UNCHANGED <<target_height_mm, target_roll_deg, completed_ht,
                   completed_roll, passes, htPass, rollPass, commanded,
                   channel_power>>
    /\ EirpFrame

\* channel_power = run_spectrum_test(...); return channel_power
EirpMeasure ==
    /\ epc = "measure"
    /\ \E p \in EirpPowers :
         /\ channel_power' = Some(p)
         /\ epc' = "returned"
    /\ UNCHANGED <<target_height_mm, target_roll_deg, completed_ht,
                   completed_roll, passes, htPass, rollPass, commanded>>
    /\ EirpFrame

EirpNext ==
    \/ EirpMoveHt
    \/ EirpMoveRoll
    \/ EirpCheckHt
    \/ EirpCheckRoll
    \/ EirpDecide
    \/ EirpSleep
    \/ EirpMeasure

SpecEirp == EirpInit /\ [][EirpNext]_vars

\* C32: measure_eirp reaches run_spectrum_test only when, in the pass of
\* the loop just made, the height axis and the roll axis both reported
\* completion: the latest report of each is True and both are of that pass.
C32_MeasureAfterBothComplete ==
    (epc = "measure" \/ channel_power # None) =>
        /\ completed_ht = Some(TRUE)
        /\ completed_roll = Some(TRUE)
        /\ htPass = passes
        /\ rollPass = passes
        /\ commanded = {"ht", "roll"}

\* The measurement is made in the third pass, after a pass in which only
\* the height axis and one in which only the roll axis reported completion.
C32_Witness ==
    /\ epc = "returned"
    /\ channel_power # None
    /\ passes = 3
    /\ htPass = 3
    /\ rollPass = 3


\* C33: a logical operation keeps the channel to itself from its first
\* attempt to its last, sleeps between attempts included: while a thread on
\* the shared port is between two attempts of one command, the thread of the
\* other controller on that port is not inside an operation.
C33_LockHeldAcrossRetries ==
    \A t, u \in Threads :
        (/\ t # u
         /\ Shared(thCtrl[t])
         /\ Shared(thCtrl[u])
         /\ thCtrl[t] # thCtrl[u]
         /\ \/ pc[t] = "backoff" /\ MoreAttempts(attempt[t])
            \/ pc[t] = "try" /\ attempt[t] > 0)
        => ~InFlight(u)


\* C34: a START_BIT write of stop_movement or start_movement that fails is
\* taken up by the retry loop: the command reports failure to its caller
\* only after max_retries (3) attempts at the operation.
C34_StartBitWriteRetried ==
    \A t \in Threads :
        (/\ pc[t] = "done"
         /\ op[t] \in {"stop_movement", "start_movement"}
         /\ ret[t] \in {"False", "None"}
         /\ calls[t] > 0)
        => calls[t] = MAX_RETRIES


\* C35: once the retries are used up, what _execute_modbus_command hands
\* to its caller tells an addressing fault (illegal data address) from a
\* timeout: two commands that ended on last errors of the two kinds
\* returned different results.
C35_ExhaustedResultTellsFaultKind ==
    \A t, u \in Threads :
        (/\ pc[t] = "done" /\ attempt[t] = MAX_RETRIES
         /\ pc[u] = "done" /\ attempt[u] = MAX_RETRIES
         /\ last_error[t] = "illegal data address"
         /\ last_error[u] = "timeout")
        => ret[t] # ret[u]


\* C36: on an angle axis, for a current position and a target inside the
\* position range of the axis, the target determine_shortest_path returns
\* is no more than 180 degrees away from the current position.
C36_AdjustedWithinHalfTurn ==
    (/\ pathOut # None
     /\ pathAxis # ANT_HEIGHT
     /\ InRange(pathAxis, pathCur)
     /\ InRange(pathAxis, pathTgt))
    => Abs(Val(pathOut) - pathCur) <= HALF_TURN


\* C37: for every axis and every target that passes the range check of
\* set_target_position, the count handed to write_long for TARGET is an
\* unsigned 32-bit number, 0 .. 2^32 - 1; so too for negative targets of
\* the EUT roll.
C37_TargetCountIsUnsigned32 ==
    (mpc \in {"set_target", "set_target_done"} /\ callCounts # None) =>
        /\ 0 <= Val(callCounts)
        /\ Val(callCounts) \div 65536 < 65536


(***************************************************************************)
(* SpecNear: move_to_position called with the device standing at or next   *)
(* to the target, for a target inside and a target outside the position    *)
(* range of each axis.                                                     *)
(***************************************************************************)
\* 90 and 185 degrees on the antenna roll (range 0..180), 100 and 370 on the
\* EUT roll (-360..360), 1600 and 2000 mm (1520..1900), 10 and 370 degrees
\* on the turntable (0..360).
NearTargets(ax) ==
    CASE ax = ANT_ROLL -> {9000, 18500}
      [] ax = EUT_ROLL -> {10000, 37000}
      [] ax = ANT_HEIGHT -> {160000, 200000}
      [] ax = TT_ROLL -> {1000, 37000}

\* Where the device stands, from the target, in hundredths of a unit: up to
\* 0.12 degree off on the antenna roll, 0.15 off in steps of 0.05 on the
\* EUT roll and the height, 1 degree off on the turntable (the positions
\* that are a whole number of counts).
NearOffsets(ax) ==
    CASE ax = ANT_ROLL -> (0 - 12)..12
      [] ax = TT_ROLL -> {0 - 100, 0, 100}
      [] OTHER -> {5 * k : k \in (0 - 3)..3}

NearInit ==
    /\ MoveEntry
    /\ axis \in PositionerType
    /\ target \in NearTargets(axis)
    /\ wait \in BOOLEAN
    /\ stride = IF axis = TT_ROLL THEN 100 ELSE 5
    /\ location \in {convert_to_counts(axis, target + k) : k \in NearOffsets(axis)}

SpecNear == NearInit /\ [][MoveNext]_vars

\* C38: when the position read at the start of move_to_position is within
\* TOLERANCE of the target, the call returns success at once: TARGET and
\* START_BIT are not written, no stop is issued, and the read of the
\* position is the only bus traffic.
C38_AlreadyThereNoWrites ==
    [][(/\ mpc = "move"
        /\ ~linkDown'
        /\ Abs(counts_to_position(axis, location) - target) < TOLERANCE)
       => (/\ mpc' = "done"
           /\ result' = "True"
           /\ issued' = {}
           /\ readRegs' = {"LOCATION"}
           /\ targetReg' = None
           /\ startBit' = 0
           /\ stops' = 0
           /\ location' = location)]_vars

\* The EUT roll stood 0.05 degree short of 100 degrees: the call has
\* returned True and nothing was written.
C38_Witness ==
    /\ axis = EUT_ROLL /\ target = 10000
    /\ counts_to_position(axis, location) = 9995
    /\ mpc = "done" /\ result = "True"
    /\ issued = {} /\ readRegs = {"LOCATION"}

\* C39: move_to_position returns success only for targets inside the
\* position range: for a target outside it the call returns failure,
\* whatever the position read, a position out of range and within
\* TOLERANCE of the target included.
C39_OutOfRangeTargetFails ==
    (mpc = "done" /\ ~InRange(axis, target)) => result = "False"


\* C40: a move_to_position that returns failure after its start pulse set
\* START_BIT (a stall, a timeout, a final position outside the tolerance)
\* has issued a stop before it returned, and with every bus transaction of
\* the call having succeeded START_BIT is 0 when it returns.
C40_FailedMoveStopped ==
    (/\ mpc = "done"
     /\ result = "False"
     /\ reason \in {"stalled", "timeout", "final"})
    => (/\ stops >= 1
        /\ ~faulted => startBit = 0)


==========================================================================
